---- MODULE Spec2Model ----
(***************************************************************************)
(* Agent execution loop of utils/agent_runner.py (run_agent_task) with the *)
(* custom action registry of utils/controller.py.                          *)
(*                                                                         *)
(* One run of run_agent_task is a sequential process; pc is its position.  *)
(* Every await on the browser, the file system or the LLM is a point where *)
(* the environment decides the outcome (return or raise).                  *)
(*                                                                         *)
(* An LLM reply is a raw text; the model keeps it as an identifying text   *)
(* plus its segments in reading order: a plain word, or an occurrence of   *)
(* the call syntax name(args) that the regular expression of line 793      *)
(* matches.                                                                *)
(***************************************************************************)
EXTENDS Integers, Sequences, FiniteSets, TLC

VARIABLES
    pc,                 \* position of run_agent_task
    max_steps,          \* browser_config['max_steps']
    use_vision,         \* browser_config['use_vision']
    save_recording,     \* browser_config['save_recording']
    initial_actions,    \* browser_config['initial_actions']
    llm_replies,        \* the replies the configured LLM may give
    status,             \* result['status']
    steps,              \* result['steps']
    urls,               \* result['urls']
    screenshots,        \* result['screenshots']
    errors,             \* result['errors']
    output,             \* result['output']
    prompt,             \* the accumulated prompt, as its fragments
    step_count,         \* local step_count
    tabs,               \* local tabs (page handles)
    current_tab_index,  \* local current_tab_index
    llm_response,       \* local llm_response of the current step
    init_i,             \* position of the loop over initial_actions
    match_i,            \* position of the for loop over action_matches
    next_goal,          \* step_result['next_goal'] (NoGoal when unset)
    llm_log,            \* history: the replies call_llm has returned, in order
    trace,              \* history: what the current step has done so far
    pages_made,         \* history: number of pages created so far
    faults,             \* history: environment failures so far
    raised,             \* history: message of the exception raised outside the step boundary
    task_db,            \* app.py: the stored Task row with its TaskHistory
    clock,              \* app.py: datetime.now(), in seconds
    session_state,      \* app.py: st.session_state of each browser session
    thread,             \* app.py: the execute_task_thread of each session
    started_at,         \* history: clock when the stored status last became running
    applied,            \* history: the last handler call with the state it found and its result
    sensitive_placeholders, \* sensitive_data.py: sensitive_data_manager.sensitive_placeholders
    task_prompts,       \* agent_runner.py: task_instructions of each task after lines 228-237
    shown,              \* history: the last text operation on sensitive data with its texts
    controller          \* controller.py: a Controller (actions, descriptions, param_models)

vars == << pc, max_steps, use_vision, save_recording, initial_actions, llm_replies,
           status, steps, urls, screenshots, errors, output, prompt, step_count,
           tabs, current_tab_index, llm_response, init_i, match_i, next_goal,
           llm_log, trace, pages_made, faults, raised,
           task_db, clock, session_state, thread, started_at,
           applied, sensitive_placeholders, task_prompts, shown, controller >>

\* The state of app.py around run_agent_task.
app_vars == << task_db, clock, session_state, thread, started_at >>

\* Everything that is not a parameter or a local of run_agent_task.
\* The global vault of utils/sensitive_data.py and what was made with it.
vault_vars == << sensitive_placeholders, task_prompts, shown >>

outside_vars == << app_vars, applied, vault_vars, controller >>

\* Number of call_llm invocations so far.
llm_calls == Len(llm_log)

config_vars == << max_steps, use_vision, save_recording, initial_actions, llm_replies >>
result_vars == << status, steps, urls, screenshots, errors, output >>

(***************************************************************************)
(* Bounds of the model.                                                    *)
(***************************************************************************)
MaxSteps == 2       \* largest max_steps tried
MaxFaults == 1      \* environment failures (raised exceptions) per run
NumSessions == 2    \* browser sessions looking at the same task
MaxCalls == 2       \* execute_task_thread starts per session
TickSeconds == 900  \* seconds the clock advances at a time
MaxTicks == 3       \* number of clock advances
MaxTabCalls == 4    \* handler calls in a row on one tab set
MaxTextLen == 3     \* characters of a text given to mask and unmask
MaxEntries == 2     \* entries of a sensitive data map
MaxTasks == 2       \* tasks started in one process
MaxRegistrations == 2   \* registrations on a Controller after its construction
MaxElementCalls == 3    \* calls in a row of handlers that touch a page element

(***************************************************************************)
(* Values.                                                                 *)
(***************************************************************************)
None == "<None>"

\* A raw string parameter, as the reply parser produces them; key is the
\* text before '=' when the parameter is written key=value.
P(s) == [ty |-> "str", s |-> s, n |-> 0, key |-> ""]
Kw(k, s) == [ty |-> "str", s |-> s, n |-> 0, key |-> k]
\* An integer parameter (only a configured initial action can carry one).
N(n) == [ty |-> "int", s |-> "", n |-> n, key |-> ""]

W(w) == [k |-> "word", name |-> w, params |-> << >>]
C(name, params) == [k |-> "call", name |-> name, params |-> params]

Reply(text, segs) == [text |-> text, none |-> FALSE, segs |-> segs]
\* A provider that answers with no content makes call_llm return None.
NoneReply == [text |-> None, none |-> TRUE, segs |-> << >>]
\* What call_llm returns when the provider call raises.
LLMFailureReply == Reply("Erro ao gerar resposta: timeout", << W("erro"), W("timeout") >>)

\* The same for the ConnectionError of requests.post (provider ollama), whose
\* message names the connection pool in call syntax.
LLMConnectionFailureReply ==
    Reply("Erro ao gerar resposta: HTTPConnectionPool(host='localhost', port=11434): Max retries exceeded",
          << W("erro"), C("HTTPConnectionPool", << Kw("host", "'localhost'"), Kw("port", "11434") >>),
             W("max"), W("retries"), W("exceeded") >>)
LLMFailureReplies == {LLMFailureReply, LLMConnectionFailureReply}

NoGoal == [name |-> None, params |-> << >>]

\* A fragment of the prompt: a fixed text, or a line about an action.
Note(kind) == [kind |-> kind, name |-> None, params |-> << >>, result |-> None]
Line(kind, c, result) == [kind |-> kind, name |-> c.name, params |-> c.params, result |-> result]

SchemedUrls == {"https://example.com", "http://b.com"}
HasScheme(u) == u \in SchemedUrls

completion_indicators ==
    {"concluido", "completo", "finalizado", "completada", "terminada",
     "finished", "complete", "done", "completed", "resultado final"}

\* A search that finds no call syntax.
FindNone(segs) == << >>

\* re.findall(action_pattern, llm_response): the call-syntax occurrences, in order.
RECURSIVE FindAll(_)
FindAll(segs) ==
    IF segs = << >> THEN << >>
    ELSE IF Head(segs).k = "call"
         THEN << [name |-> Head(segs).name, params |-> Head(segs).params] >> \o FindAll(Tail(segs))
         ELSE FindAll(Tail(segs))

\* any(indicator in llm_response.lower() for indicator in completion_indicators)
HasCompletionIndicator(r) ==
    \E i \in 1..Len(r.segs) : r.segs[i].name \in completion_indicators

(***************************************************************************)
(* The built-in action map and the custom action registry.                 *)
(***************************************************************************)
\* Positional parameters of each built-in handler: required, then optional.
Signature ==
    [ navigate          |-> [req |-> 1, opt |-> 0],
      click             |-> [req |-> 1, opt |-> 0],
      type_text         |-> [req |-> 2, opt |-> 0],
      take_screenshot   |-> [req |-> 0, opt |-> 0],
      extract_text      |-> [req |-> 1, opt |-> 0],
      wait              |-> [req |-> 1, opt |-> 0],
      scroll_down       |-> [req |-> 0, opt |-> 1],
      scroll_up         |-> [req |-> 0, opt |-> 1],
      search_google     |-> [req |-> 1, opt |-> 0],
      open_tab          |-> [req |-> 0, opt |-> 1],
      switch_tab        |-> [req |-> 1, opt |-> 0],
      close_tab         |-> [req |-> 0, opt |-> 0],
      extract_all_links |-> [req |-> 0, opt |-> 0],
      extract_all_text  |-> [req |-> 0, opt |-> 0],
      upload_file       |-> [req |-> 2, opt |-> 0] ]

\* A map of built-in actions that leaves upload_file to the controller.
action_map_custom_first ==
    [ navigate          |-> "navigate",
      click             |-> "click",
      type              |-> "type_text",
      type_text         |-> "type_text",
      screenshot        |-> "take_screenshot",
      extract_text      |-> "extract_text",
      wait              |-> "wait",
      scroll_down       |-> "scroll_down",
      scroll_up         |-> "scroll_up",
      search_google     |-> "search_google",
      open_tab          |-> "open_tab",
      switch_tab        |-> "switch_tab",
      close_tab         |-> "close_tab",
      extract_all_links |-> "extract_all_links",
      extract_all_text  |-> "extract_all_text" ]

action_map ==
    [ navigate          |-> "navigate",
      click             |-> "click",
      type              |-> "type_text",
      type_text         |-> "type_text",
      screenshot        |-> "take_screenshot",
      extract_text      |-> "extract_text",
      wait              |-> "wait",
      scroll_down       |-> "scroll_down",
      scroll_up         |-> "scroll_up",
      search_google     |-> "search_google",
      open_tab          |-> "open_tab",
      switch_tab        |-> "switch_tab",
      close_tab         |-> "close_tab",
      extract_all_links |-> "extract_all_links",
      extract_all_text  |-> "extract_all_text",
      upload_file       |-> "upload_file" ]

\* controller.actions after Controller.__init__ registered the default actions.
controller_actions ==
    {"debug_message", "ask_human", "upload_file", "notify_user", "save_to_file", "extract_tables"}

\* Python binds n positional arguments to the handler, or raises TypeError.
Binds(handler, n) ==
    /\ Signature[handler].req <= n
    /\ n <= Signature[handler].req + Signature[handler].opt

(***************************************************************************)
(* Built-in action handlers.  A handler works on the part of the state the *)
(* closures share (result lists, tabs, current_tab_index) and returns that *)
(* part together with its ActionResult.  env is what the browser does:     *)
(* "ok", "fail1" (the first browser operation raises) or "fail2" (the      *)
(* second one raises).                                                     *)
(***************************************************************************)
Shared ==
    [ urls |-> urls, screenshots |-> screenshots, errors |-> errors,
      tabs |-> tabs, cur |-> current_tab_index, made |-> pages_made ]

ActionResult(success, extracted_content, error) ==
    [success |-> success, extracted_content |-> extracted_content, error |-> error]

\* return ActionResult(success=True, extracted_content=...)
Succeeds(st, content) == [st |-> st, res |-> ActionResult(TRUE, content, None)]
\* except Exception: result['errors'].append(error_msg); return ActionResult(success=False, error=error_msg)
Excepts(st, msg) ==
    [st |-> [st EXCEPT !.errors = Append(@, msg)], res |-> ActionResult(FALSE, None, msg)]
\* return ActionResult(success=False, error=...) outside an except clause
Rejects(st, msg) == [st |-> st, res |-> ActionResult(FALSE, None, msg)]

NoParam == [ty |-> "none", s |-> "", n |-> 0, key |-> ""]
Truthy(p) == (p.ty = "str" /\ p.s # "") \/ (p.ty = "int" /\ p.n # 0)
Arg(params, i) == IF i <= Len(params) THEN params[i] ELSE NoParam

\* A navigate that records the URL as the reply gave it.
navigate_as_given(st, url, env) ==
    IF url.ty # "str" \/ env # "ok"
    THEN Excepts(st, "Erro ao navegar")
    ELSE Succeeds([st EXCEPT !.urls = Append(@, url.s)], "Navegou para")

navigate(st, url, env) ==
    IF url.ty # "str" \/ env # "ok"
    THEN Excepts(st, "Erro ao navegar")
    ELSE LET u == IF HasScheme(url.s) THEN url.s ELSE "https://" \o url.s
         IN Succeeds([st EXCEPT !.urls = Append(@, u)], "Navegou para")

\* click, type_text, extract_text, scroll_*, extract_all_*, upload_file: one
\* or more page operations inside try/except, no effect on the shared lists.
page_action(st, handler, env) ==
    IF env # "ok" THEN Excepts(st, "Erro em " \o handler) ELSE Succeeds(st, "Feito " \o handler)

\* A take_screenshot that keeps the newest screenshot only.
take_screenshot_latest(st, env) ==
    IF env # "ok"
    THEN Excepts(st, "Erro ao capturar screenshot")
    ELSE Succeeds([st EXCEPT !.screenshots = << Len(@) + 1 >>], "Screenshot capturado")

take_screenshot(st, env) ==
    IF env # "ok"
    THEN Excepts(st, "Erro ao capturar screenshot")
    ELSE Succeeds([st EXCEPT !.screenshots = Append(@, Len(@) + 1)], "Screenshot capturado")

WaitLimit == 30

\* Lines 491-493 of wait: the seconds asyncio.sleep suspends for (none when
\* min raises, none for a delay that is not positive).
wait_sleep(seconds) ==
    IF seconds.ty # "int" THEN 0
    ELSE LET clamped == IF seconds.n < WaitLimit THEN seconds.n ELSE WaitLimit
         IN IF clamped <= 0 THEN 0 ELSE clamped

wait(st, seconds) ==
    IF seconds.ty # "int"
    THEN Excepts(st, "Erro ao esperar")
    ELSE Succeeds(st, "Esperou " \o ToString(IF seconds.n < WaitLimit THEN seconds.n ELSE WaitLimit))

search_google(st, env) ==
    LET google_result == navigate(st, P("https://www.google.com"), IF env = "fail1" THEN "fail1" ELSE "ok")
    IN IF ~google_result.res.success THEN google_result
       ELSE IF env = "fail2" THEN Excepts(google_result.st, "Erro ao pesquisar no Google")
       ELSE Succeeds(google_result.st, "Pesquisou")

open_tab(st, url, env) ==
    IF env = "fail1"
    THEN Excepts(st, "Erro ao abrir nova aba")
    ELSE LET st1 == [st EXCEPT !.made = @ + 1,
                               !.tabs = Append(@, st.made + 1),
                               !.cur = Len(st.tabs)]
         IN IF Truthy(url)
            THEN LET nav_result == navigate(st1, url, IF env = "fail2" THEN "fail1" ELSE "ok")
                 IN [st |-> nav_result.st,
                     res |-> ActionResult(nav_result.res.success,
                                          "Nova aba criada e navegada", nav_result.res.error)]
            ELSE Succeeds(st1, "Nova aba criada")

\* A switch_tab without the range check.
switch_tab_unchecked(st, index) ==
    IF index.ty # "int"
    THEN Excepts(st, "Erro ao alternar abas")
    ELSE Succeeds([st EXCEPT !.cur = index.n], "Alternado para aba")

switch_tab(st, index) ==
    IF index.ty # "int"
    THEN Excepts(st, "Erro ao alternar abas")
    ELSE IF 0 <= index.n /\ index.n < Len(st.tabs)
         THEN Succeeds([st EXCEPT !.cur = index.n], "Alternado para aba")
         ELSE Rejects(st, "Indice de aba invalido")

\* A pop that takes the last element whatever the position asked for.
RemoveLast(seq, i) == SubSeq(seq, 1, Len(seq) - 1)

RemoveAt(seq, i) == SubSeq(seq, 1, i - 1) \o SubSeq(seq, i + 1, Len(seq))

\* A close_tab without the test for the last tab.
close_tab_any(st, env) ==
    IF env # "ok"
    THEN Excepts(st, "Erro ao fechar aba")
    ELSE Succeeds([st EXCEPT !.tabs = RemoveAt(@, st.cur + 1),
                             !.cur = IF st.cur - 1 > 0 THEN st.cur - 1 ELSE 0],
                  "Aba fechada")

close_tab(st, env) ==
    IF Len(st.tabs) <= 1
    THEN Rejects(st, "Nao e possivel fechar a ultima aba")
    ELSE IF env # "ok"
         THEN Excepts(st, "Erro ao fechar aba")
         ELSE Succeeds([st EXCEPT !.tabs = RemoveAt(@, st.cur + 1),
                                  !.cur = IF st.cur - 1 > 0 THEN st.cur - 1 ELSE 0],
                       "Aba fechada")

\* await action_func(*params) for a call that binds.
Run(handler, st, params, env) ==
    CASE handler = "navigate"        -> navigate(st, Arg(params, 1), env)
      [] handler = "take_screenshot" -> take_screenshot(st, env)
      [] handler = "wait"            -> wait(st, Arg(params, 1))
      [] handler = "search_google"   -> search_google(st, env)
      [] handler = "open_tab"        -> open_tab(st, Arg(params, 1), env)
      [] handler = "switch_tab"      -> switch_tab(st, Arg(params, 1))
      [] handler = "close_tab"       -> close_tab(st, env)
      [] OTHER                       -> page_action(st, handler, env)

\* What the browser may do during a handler.
Envs(handler, st, params) ==
    CASE handler \in {"wait", "switch_tab"} -> {"ok"}
      [] handler = "navigate" -> IF Arg(params, 1).ty = "str" THEN {"ok", "fail1"} ELSE {"ok"}
      [] handler = "close_tab" -> IF Len(st.tabs) <= 1 THEN {"ok"} ELSE {"ok", "fail1"}
      [] handler = "search_google" -> {"ok", "fail1", "fail2"}
      [] handler = "open_tab" -> IF Truthy(Arg(params, 1)) THEN {"ok", "fail1", "fail2"} ELSE {"ok", "fail1"}
      [] OTHER -> {"ok", "fail1"}

\* The browser is allowed to fail while the run has failures left.
Allowed(env) == env = "ok" \/ faults < MaxFaults
Count(env) == IF env = "ok" THEN faults ELSE faults + 1

SetShared(st) ==
    /\ urls' = st.urls
    /\ screenshots' = st.screenshots
    /\ errors' = st.errors
    /\ tabs' = st.tabs
    /\ current_tab_index' = st.cur
    /\ pages_made' = st.made

(***************************************************************************)
(* Inputs.                                                                 *)
(***************************************************************************)
\* An entry of browser_config['initial_actions']: {action_name: params}.
\* dict tells whether params is a dict (called as **params); kwok whether
\* its keys are the handler's parameter names.
Initial(name, params, dict, kwok) ==
    [name |-> name, params |-> params, dict |-> dict, kwok |-> kwok]

InitialActionChoices ==
    { << >>,
      << Initial("hover", << P("#menu") >>, FALSE, TRUE),
         Initial("navigate", << P("example.com") >>, FALSE, TRUE) >>,
      << Initial("navigate", << P("example.com") >>, TRUE, TRUE),
         Initial("click", << P("#go") >>, TRUE, FALSE) >> }

R_thinking == Reply("let me think", << W("let"), W("me"), W("think") >>)
R_completed == Reply("task completed", << W("task"), W("completed") >>)
R_navigate == Reply("navigate(example.com)", << C("navigate", << P("example.com") >>) >>)
R_navigate_scheme ==
    Reply("navigate(https://example.com)", << C("navigate", << P("https://example.com") >>) >>)
R_unknown == Reply("foo(bar)", << C("foo", << P("bar") >>) >>)
R_unknown_done == Reply("foo(bar) done", << C("foo", << P("bar") >>), W("done") >>)
R_noargs_then_click ==
    Reply("navigate() click(#a)", << C("navigate", << >>), C("click", << P("#a") >>) >>)
R_click_then_navigate ==
    Reply("click(#a) navigate(https://example.com)",
          << C("click", << P("#a") >>), C("navigate", << P("https://example.com") >>) >>)
R_unknown_then_click ==
    Reply("foo(x) click(#a)", << C("foo", << P("x") >>), C("click", << P("#a") >>) >>)
R_screenshot == Reply("screenshot()", << C("screenshot", << >>) >>)
R_close_tab == Reply("close_tab()", << C("close_tab", << >>) >>)
R_custom == Reply("debug_message(message=hi)", << C("debug_message", << Kw("message", "hi") >>) >>)
R_upload == Reply("upload_file(#f, a.txt)", << C("upload_file", << P("#f"), P("a.txt") >>) >>)
R_upload_kw == Reply("upload_file(selector=#f)", << C("upload_file", << Kw("selector", "#f") >>) >>)

\* The replies the LLM of a run may give.
LLMProfiles ==
    { { R_thinking, R_completed, R_navigate, R_navigate_scheme, R_unknown, R_unknown_done,
        R_noargs_then_click, R_click_then_navigate, R_unknown_then_click,
        R_screenshot, R_close_tab, R_custom, R_upload, R_upload_kw, NoneReply } }

(***************************************************************************)
(* run_agent_task.                                                         *)
(***************************************************************************)
StepLimitMsg == "A tarefa atingiu o limite de passos. Avanco parcial registrado."

(***************************************************************************)
(* app.py: the stored task and the sessions that run it.                    *)
(***************************************************************************)
Sessions == 1..NumSessions

\* TaskHistory row: none until the first run is persisted (lines 781-796).
NoHistory == [steps |-> << >>, urls |-> << >>, screenshots |-> << >>, errors |-> << >>,
              saved |-> FALSE]

\* A Task row as create_task stores it: status created, created_at now.
NewTask == [status |-> "created", output |-> "", created_at |-> 0, history |-> NoHistory]

\* st.session_state as initialize_session_state leaves it (lines 134-135),
\* and no execute_task_thread started.
AppNotStarted ==
    /\ task_db = NewTask
    /\ clock = 0
    /\ session_state = [s \in Sessions |-> [force_rerun_task |-> "False", task_running |-> FALSE]]
    /\ thread = [s \in Sessions |-> [pc |-> "idle", req |-> "none", calls |-> 0,
                                      result |-> None, returned |-> "none",
                                      signalled |-> FALSE]]
    /\ started_at = None

\* No handler has been called yet.
NoCall == [handler |-> "none"]

\* The vault as the import of utils/sensitive_data.py creates it (line 181).
VaultEmpty ==
    /\ sensitive_placeholders = << >>
    /\ task_prompts = << >>
    /\ shown = [op |-> "none"]

(***************************************************************************)
(* controller.py: the Controller with its three dicts.  A Python dict is   *)
(* kept as the sequence of its items, in insertion order.                  *)
(***************************************************************************)
HasKey(d, k) == \E i \in DOMAIN d : d[i].key = k
GetItem(d, k) == d[CHOOSE i \in DOMAIN d : d[i].key = k].value

\* An assignment that keeps the value a key already has.
SetDefault(d, k, v) ==
    IF HasKey(d, k) THEN d ELSE Append(d, [key |-> k, value |-> v])

\* d[k] = v
SetItem(d, k, v) ==
    IF HasKey(d, k)
    THEN [i \in DOMAIN d |-> IF d[i].key = k THEN [key |-> k, value |-> v] ELSE d[i]]
    ELSE Append(d, [key |-> k, value |-> v])

\* A function given to the decorator: its __name__, its identity, what a
\* call of it does ("result": returns a successful ActionResult with text
\* msg; "failed": returns a failed ActionResult with error msg; "value":
\* returns the plain value msg; "raises": raises Exception(msg)), its keyword
\* parameters without 'browser', and whether it has a parameter 'browser'.
Func(name, id, does, msg, req, opt, takes_browser) ==
    [name |-> name, id |-> id, does |-> does, msg |-> msg, req |-> req, opt |-> opt,
     takes_browser |-> takes_browser]

\* param_model=None
NoModel == [auto |-> FALSE, of |-> None, fields |-> {}]
\* create_model(f"{action_name.title()}Params", **fields) of lines 239-255.
AutoModel(func) == [auto |-> TRUE, of |-> func.name, fields |-> func.req \cup func.opt]

\* Controller.action(description, param_model)(func): the controller afterwards.
Controller_action(ctrl, description, param_model, func) ==
    IF func.name \in ctrl.exclude_actions
    THEN ctrl
    ELSE [ctrl EXCEPT
            !.param_models = SetItem(@, func.name,
                                     IF param_model = NoModel THEN AutoModel(func) ELSE param_model),
            !.actions = SetItem(@, func.name, func),
            !.descriptions = SetItem(@, func.name, description)]

\* The functions _register_default_actions decorates, with their descriptions.
DefaultActions ==
    << [func |-> Func("debug_message", 0, "result", "Mensagem exibida", {"message"}, {}, FALSE),
        description |-> "Exibir mensagem de depuracao"],
       [func |-> Func("ask_human", 0, "failed", "Aguardando resposta do usuario...", {"question"}, {}, FALSE),
        description |-> "Perguntar ao usuario"],
       [func |-> Func("upload_file", 0, "failed", "Aguardando upload do arquivo...", {"selector"}, {"file_path"}, TRUE),
        description |-> "Fazer upload de arquivo"],
       [func |-> Func("notify_user", 0, "result", "Notificacao exibida", {"message"}, {"type"}, FALSE),
        description |-> "Notificar usuario"],
       [func |-> Func("save_to_file", 0, "result", "Conteudo salvo", {"content"}, {"filename"}, FALSE),
        description |-> "Salvar resultado em arquivo"],
       [func |-> Func("extract_tables", 0, "result", "Nenhuma tabela encontrada na pagina.", {}, {}, TRUE),
        description |-> "Extrair tabelas da pagina"] >>

RECURSIVE RegisterAll(_, _)
RegisterAll(ctrl, regs) ==
    IF regs = << >> THEN ctrl
    ELSE RegisterAll(Controller_action(ctrl, Head(regs).description, NoModel, Head(regs).func),
                     Tail(regs))

\* Controller(exclude_actions=...): __init__ of lines 30-38.
Controller(exclude_actions) ==
    RegisterAll([actions |-> << >>, descriptions |-> << >>, param_models |-> << >>,
                 exclude_actions |-> exclude_actions],
                DefaultActions)

\* controller = Controller() of line 358.
ControllerCreated == controller = Controller({})

Init ==
    /\ pc = "entry"
    /\ max_steps \in (-1)..MaxSteps
    /\ use_vision \in BOOLEAN
    /\ save_recording \in BOOLEAN
    /\ initial_actions \in InitialActionChoices
    /\ llm_replies \in LLMProfiles
    /\ status = "running"
    /\ steps = << >>
    /\ urls = << >>
    /\ screenshots = << >>
    /\ errors = << >>
    /\ output = ""
    /\ prompt = << >>
    /\ step_count = 0
    /\ tabs = << >>
    /\ current_tab_index = 0
    /\ llm_response = NoneReply
    /\ init_i = 1
    /\ match_i = 1
    /\ next_goal = NoGoal
    /\ llm_log = << >>
    /\ trace = << >>
    /\ pages_made = 0
    /\ faults = 0
    /\ raised = None
    /\ AppNotStarted
    /\ applied = NoCall
    /\ VaultEmpty
    /\ ControllerCreated

\* What can raise before the try statement: the playwright import, mkdtemp,
\* and makedirs when a recording is asked for.
PrepareFailures ==
    {"No module named playwright", "mkdtemp failed"}
        \cup (IF save_recording THEN {"makedirs failed"} ELSE {})

\* Lines 216-249 run to the try statement.
Prepare ==
    /\ pc = "entry"
    /\ pc' = "setup"
    /\ UNCHANGED << outside_vars, config_vars, result_vars, prompt, step_count, tabs, current_tab_index,
                    llm_response, init_i, match_i, next_goal, llm_log, trace,
                    pages_made, faults, raised >>

\* A statement of lines 216-249 raises: nothing encloses it.
PrepareRaises ==
    /\ pc = "entry"
    /\ faults < MaxFaults
    /\ \E m \in PrepareFailures : raised' = m
    /\ pc' = "raised"
    /\ faults' = faults + 1
    /\ UNCHANGED << outside_vars, config_vars, result_vars, prompt, step_count, tabs, current_tab_index,
                    llm_response, init_i, match_i, next_goal, llm_log, trace, pages_made >>

\* except Exception as e (line 963): the handler of the outer try.
general_except(m) ==
    /\ status' = "failed"
    /\ errors' = Append(errors, "Erro geral: " \o m)
    /\ raised' = m
    /\ pc' = "finally"

\* Lines 253-311 and 731-741: browser, context, first page, initial prompt.
SetupBrowser ==
    /\ pc = "setup"
    /\ tabs' = << pages_made + 1 >>
    /\ pages_made' = pages_made + 1
    /\ current_tab_index' = 0
    /\ prompt' = IF initial_actions # << >>
                 THEN << Note("system prompt and task"),
                         Note("Acoes iniciais executadas automaticamente:") >>
                 ELSE << Note("system prompt and task") >>
    /\ init_i' = 1
    /\ pc' = "initial"
    /\ UNCHANGED << outside_vars, config_vars, result_vars, step_count, llm_response, match_i, next_goal,
                    llm_log, trace, faults, raised >>

SetupFailures == {"launch failed", "new_context failed", "new_page failed"}

SetupRaises ==
    /\ pc = "setup"
    /\ faults < MaxFaults
    /\ \E m \in SetupFailures : general_except(m)
    /\ faults' = faults + 1
    /\ UNCHANGED << outside_vars, config_vars, steps, urls, screenshots, output, prompt, step_count, tabs,
                    current_tab_index, llm_response, init_i, match_i, next_goal, llm_log,
                    trace, pages_made >>

\* Lines 743-752: one configured initial action whose handler is called.
InitialAction ==
    /\ pc = "initial"
    /\ init_i <= Len(initial_actions)
    /\ LET a == initial_actions[init_i]
       IN /\ a.name \in DOMAIN action_map
          /\ IF a.dict THEN a.kwok ELSE Binds(action_map[a.name], 1)
          /\ \E env \in Envs(action_map[a.name], Shared, a.params) :
                /\ Allowed(env)
                /\ faults' = Count(env)
                /\ LET r == Run(action_map[a.name], Shared, a.params, env)
                   IN /\ SetShared(r.st)
                      /\ prompt' = Append(prompt, Line("-", a, r.res.extracted_content))
    /\ init_i' = init_i + 1
    /\ UNCHANGED << outside_vars, pc, config_vars, status, steps, output, step_count, llm_response,
                    match_i, next_goal, llm_log, trace, raised >>

\* action_map.get(action_name) is None: the entry is passed over.
InitialActionSkipped ==
    /\ pc = "initial"
    /\ init_i <= Len(initial_actions)
    /\ initial_actions[init_i].name \notin DOMAIN action_map
    /\ init_i' = init_i + 1
    /\ UNCHANGED << outside_vars, pc, config_vars, result_vars, prompt, step_count, tabs, current_tab_index,
                    llm_response, match_i, next_goal, llm_log, trace, pages_made,
                    faults, raised >>

\* The call of lines 748/750 raises TypeError: it is outside every step.
InitialActionRaises ==
    /\ pc = "initial"
    /\ init_i <= Len(initial_actions)
    /\ LET a == initial_actions[init_i]
       IN /\ a.name \in DOMAIN action_map
          /\ ~(IF a.dict THEN a.kwok ELSE Binds(action_map[a.name], 1))
    /\ general_except("unexpected keyword argument")
    /\ UNCHANGED << outside_vars, config_vars, steps, urls, screenshots, output, prompt, step_count, tabs,
                    current_tab_index, llm_response, init_i, match_i, next_goal, llm_log,
                    trace, pages_made, faults >>

\* Lines 755-759.
InitialDone ==
    /\ pc = "initial"
    /\ init_i > Len(initial_actions)
    /\ step_count' = 0
    /\ pc' = "loop"
    /\ UNCHANGED << outside_vars, config_vars, result_vars, prompt, tabs, current_tab_index, llm_response,
                    init_i, match_i, next_goal, llm_log, trace, pages_made, faults, raised >>

(***************************************************************************)
(* The step loop.                                                          *)
(***************************************************************************)
Ev(ev, i) == [ev |-> ev, i |-> i]

\* The loop test off by one: one iteration too many.
LoopCondInclusive == step_count <= max_steps

\* A loop test that leaves the loop one step before the ceiling.
LoopCondEarly == step_count + 1 < max_steps

\* A loop test that allows one step beyond the ceiling.
LoopCondOneMore == step_count < max_steps + 1

\* while step_count < max_steps
LoopCond == step_count < max_steps

StepBegin ==
    /\ pc = "loop"
    /\ LoopCond
    /\ step_count' = step_count + 1
    /\ trace' = << >>
    /\ pc' = "step"
    /\ UNCHANGED << outside_vars, config_vars, result_vars, prompt, tabs, current_tab_index, llm_response,
                    init_i, match_i, next_goal, llm_log, pages_made, faults, raised >>

LoopExit ==
    /\ pc = "loop"
    /\ ~LoopCond
    /\ pc' = "after"
    /\ UNCHANGED << outside_vars, config_vars, result_vars, prompt, step_count, tabs, current_tab_index,
                    llm_response, init_i, match_i, next_goal, llm_log, trace, pages_made,
                    faults, raised >>

StepErrorNote == Note("Ocorreu um erro. Por favor, tente uma abordagem alternativa.")

\* The step handler without the append to the error list.
step_except_unrecorded(m) ==
    /\ errors' = errors
    /\ prompt' = Append(prompt, StepErrorNote)
    /\ pc' = "loop"

\* except Exception as e (line 927): the handler at the step boundary.
step_except(m) ==
    /\ errors' = Append(errors, "Erro no passo " \o ToString(step_count) \o ": " \o m)
    /\ prompt' = Append(prompt, StepErrorNote)
    /\ pc' = "loop"

\* Lines 767-771: the screenshot for the vision input raises.
VisionRaises ==
    /\ pc = "step"
    /\ use_vision
    /\ faults < MaxFaults
    /\ faults' = faults + 1
    /\ step_except("screenshot failed")
    /\ trace' = Append(trace, Ev("vision_exc", 0))
    /\ UNCHANGED << outside_vars, config_vars, status, steps, urls, screenshots, output, step_count, tabs,
                    current_tab_index, llm_response, init_i, match_i, next_goal, llm_log,
                    pages_made, raised >>

\* What call_llm may return: a reply of the LLM, or the text it makes of a
\* provider failure (lines 146-148).
Returned == llm_replies \cup LLMFailureReplies
MayReturn(r) == r \in llm_replies \/ faults < MaxFaults
AfterCall(r) ==
    trace \o (IF use_vision THEN << Ev("vision", 0) >> ELSE << >>)
          \o << Ev(IF r \in llm_replies THEN "llm" ELSE "llm_exc", 0) >>
CountCall(r) == IF r \in llm_replies THEN faults ELSE faults + 1

\* Lines 774-794 for a None reply: re.findall raises TypeError.
LLMUnparsable ==
    /\ pc = "step"
    /\ \E r \in Returned :
          /\ MayReturn(r)
          /\ r.none
          /\ llm_response' = r
          /\ llm_log' = Append(llm_log, r)
          /\ trace' = Append(AfterCall(r), Ev("parse_exc", 0))
          /\ faults' = CountCall(r)
    /\ step_except("expected string or bytes-like object")
    /\ UNCHANGED << outside_vars, config_vars, status, steps, urls, screenshots, output, step_count, tabs,
                    current_tab_index, init_i, match_i, next_goal, pages_made, raised >>

\* Lines 774-797: the reply holds call syntax; the for loop starts.
LLMActions ==
    /\ pc = "step"
    /\ \E r \in Returned :
          /\ MayReturn(r)
          /\ ~r.none
          /\ FindAll(r.segs) # << >>
          /\ llm_response' = r
          /\ llm_log' = Append(llm_log, r)
          /\ trace' = AfterCall(r)
          /\ faults' = CountCall(r)
    /\ match_i' = 1
    /\ next_goal' = NoGoal
    /\ pc' = "actions"
    /\ UNCHANGED << outside_vars, config_vars, result_vars, prompt, step_count, tabs, current_tab_index,
                    init_i, pages_made, raised >>

StepRecord(step, text, goal) ==
    [step |-> step, evaluation_previous_goal |-> text, next_goal |-> goal]

DoneGoal == [name |-> "Tarefa concluida", params |-> << >>]

\* The completion branch without its break: the loop goes on.
CompletesWithoutBreak(r) ==
    /\ output' = r.text
    /\ steps' = Append(steps, StepRecord(step_count, r.text, DoneGoal))
    /\ status' = "finished"
    /\ pc' = "loop"

\* Lines 909-914: what the completion branch writes.
Completes(r) ==
    /\ output' = r.text
    /\ steps' = Append(steps, StepRecord(step_count, r.text, DoneGoal))
    /\ status' = "finished"
    /\ pc' = "after"

\* Lines 904-914: no call syntax, a completion indicator.
LLMCompletion ==
    /\ pc = "step"
    /\ \E r \in Returned :
          /\ MayReturn(r)
          /\ ~r.none
          /\ FindAll(r.segs) = << >>
          /\ HasCompletionIndicator(r)
          /\ llm_response' = r
          /\ llm_log' = Append(llm_log, r)
          /\ trace' = AfterCall(r)
          /\ faults' = CountCall(r)
          /\ Completes(r)
    /\ next_goal' = DoneGoal
    /\ UNCHANGED << outside_vars, config_vars, urls, screenshots, errors, prompt, step_count, tabs,
                    current_tab_index, init_i, match_i, pages_made, raised >>

AskForAction == Note("Por favor, indique uma acao especifica a ser realizada.")

\* Lines 915-918: no call syntax, no completion indicator.
LLMNoAction ==
    /\ pc = "step"
    /\ \E r \in Returned :
          /\ MayReturn(r)
          /\ ~r.none
          /\ FindAll(r.segs) = << >>
          /\ ~HasCompletionIndicator(r)
          /\ llm_response' = r
          /\ llm_log' = Append(llm_log, r)
          /\ trace' = AfterCall(r)
          /\ faults' = CountCall(r)
    /\ prompt' = Append(prompt, AskForAction)
    /\ next_goal' = NoGoal
    /\ pc' = "loop"
    /\ UNCHANGED << outside_vars, config_vars, result_vars, step_count, tabs, current_tab_index,
                    init_i, match_i, pages_made, raised >>

action_matches == FindAll(llm_response.segs)
InFor == pc = "actions" /\ match_i <= Len(action_matches)
Goal(c) == [name |-> c.name, params |-> c.params]

\* Line 846: the line a dispatched built-in action adds to the prompt.
ResultLine(c, res) ==
    Line("Acao", c, IF res.success THEN res.extracted_content ELSE res.error)

\* Lines 800-849: a built-in action whose call binds; break.
DispatchBuiltin ==
    /\ InFor
    /\ LET c == action_matches[match_i]
       IN /\ c.name \in DOMAIN action_map
          /\ Binds(action_map[c.name], Len(c.params))
          /\ \E env \in Envs(action_map[c.name], Shared, c.params) :
                /\ Allowed(env)
                /\ faults' = Count(env)
                /\ LET r == Run(action_map[c.name], Shared, c.params, env)
                   IN /\ SetShared(r.st)
                      /\ prompt' = Append(prompt, ResultLine(c, r.res))
                      /\ trace' = trace \o << Ev("dispatch", match_i),
                                              Ev(IF env = "ok" THEN "handler" ELSE "handler_exc", match_i) >>
          /\ next_goal' = Goal(c)
    /\ pc' = "post"
    /\ UNCHANGED << outside_vars, config_vars, status, steps, output, step_count, llm_response, init_i,
                    match_i, llm_log, raised >>

\* Lines 850-853: except Exception as action_ex, the handler around the call.
action_except(c) ==
    /\ errors' = Append(errors, "Erro ao executar " \o c.name)
    /\ prompt' = Append(prompt, Line("Erro na acao", c, None))
    /\ match_i' = match_i + 1
    /\ pc' = pc

\* Lines 833-853: the call of a built-in action raises TypeError (the
\* parameters do not bind); the for loop goes on.
DispatchRaises ==
    /\ InFor
    /\ LET c == action_matches[match_i]
       IN /\ c.name \in DOMAIN action_map
          /\ ~Binds(action_map[c.name], Len(c.params))
          /\ action_except(c)
          /\ next_goal' = Goal(c)
    /\ trace' = trace \o << Ev("dispatch", match_i), Ev("dispatch_exc", match_i) >>
    /\ UNCHANGED << outside_vars, config_vars, status, steps, urls, screenshots, output, step_count, tabs,
                    current_tab_index, llm_response, init_i, llm_log, pages_made, faults,
                    raised >>

\* Keyword parameters of the default custom actions (browser is injected).
CustomSignature ==
    [ debug_message  |-> [req |-> {"message"}, opt |-> {}],
      ask_human      |-> [req |-> {"question"}, opt |-> {}],
      upload_file    |-> [req |-> {"selector"}, opt |-> {"file_path"}],
      notify_user    |-> [req |-> {"message"}, opt |-> {"type"}],
      save_to_file   |-> [req |-> {"content"}, opt |-> {"filename"}],
      extract_tables |-> [req |-> {}, opt |-> {}] ]

\* Lines 859-873: the dict made of the key=value parameters.
Keys(params) == { params[i].key : i \in { j \in 1..Len(params) : params[j].key # "" } }

\* Controller.execute_action: a failed result for an unregistered name or a
\* handler that raises, else the handler's result.
execute_action(name, params) ==
    IF name \notin controller_actions
    THEN ActionResult(FALSE, None, "Acao nao encontrada: " \o name)
    ELSE IF ~(CustomSignature[name].req \subseteq Keys(params)
              /\ Keys(params) \subseteq CustomSignature[name].req \cup CustomSignature[name].opt)
         THEN ActionResult(FALSE, None, "Erro ao executar " \o name)
         ELSE IF name = "debug_message"
              THEN ActionResult(TRUE, "Mensagem exibida", None)
              ELSE ActionResult(FALSE, None, "Erro em " \o name)

\* Lines 854-897: a custom action of the controller; break.
DispatchCustom ==
    /\ InFor
    /\ LET c == action_matches[match_i]
       IN /\ c.name \notin DOMAIN action_map
          /\ c.name \in controller_actions
          /\ LET res == execute_action(c.name, c.params)
             IN prompt' = Append(prompt, Line("Acao personalizada", c,
                                               IF res.success THEN res.extracted_content
                                               ELSE res.error))
          /\ next_goal' = Goal(c)
    /\ trace' = trace \o << Ev("dispatch", match_i), Ev("handler", match_i) >>
    /\ pc' = "post"
    /\ UNCHANGED << outside_vars, config_vars, result_vars, step_count, tabs, current_tab_index,
                    llm_response, init_i, match_i, llm_log, pages_made, faults, raised >>

\* Lines 898-903: what the unknown-action branch does; continue.
unknown_action(c) ==
    /\ errors' = Append(errors, "Acao desconhecida: " \o c.name)
    /\ prompt' = Append(prompt, Line("Erro: acao desconhecida. Use uma acao valida.", c, None))
    /\ match_i' = match_i + 1
    /\ pc' = pc

UnknownAction ==
    /\ InFor
    /\ LET c == action_matches[match_i]
       IN /\ c.name \notin DOMAIN action_map
          /\ c.name \notin controller_actions
          /\ unknown_action(c)
    /\ trace' = Append(trace, Ev("unknown", match_i))
    /\ UNCHANGED << outside_vars, config_vars, status, steps, urls, screenshots, output, step_count, tabs,
                    current_tab_index, llm_response, init_i, next_goal, llm_log,
                    pages_made, faults, raised >>

\* The for loop ran out of matches without a break.
ForExhausted ==
    /\ pc = "actions"
    /\ match_i > Len(action_matches)
    /\ pc' = "post"
    /\ UNCHANGED << outside_vars, config_vars, result_vars, prompt, step_count, tabs, current_tab_index,
                    llm_response, init_i, match_i, next_goal, llm_log, trace, pages_made,
                    faults, raised >>

ScreenshotTexts == {"screenshot(x"}

\* A test that never finds the text.
NeverMentions(goal) == FALSE

\* 'screenshot(' in str(step_result.get('next_goal', ''))
MentionsScreenshot(goal) ==
    /\ goal # NoGoal
    /\ \/ goal.name = "screenshot"
       \/ \E i \in 1..Len(goal.params) : goal.params[i].s \in ScreenshotTexts

\* Lines 920-925: the supplementary screenshot and the step record.
RecordStep ==
    /\ pc = "post"
    /\ \E env \in (IF MentionsScreenshot(next_goal) THEN {"ok"} ELSE {"ok", "fail1"}) :
          /\ Allowed(env)
          /\ faults' = Count(env)
          /\ IF MentionsScreenshot(next_goal)
             THEN /\ SetShared(Shared)
                  /\ trace' = Append(trace, Ev("record", 0))
             ELSE /\ SetShared(take_screenshot(Shared, env).st)
                  /\ trace' = trace \o << Ev(IF env = "ok" THEN "shot" ELSE "shot_exc", 0),
                                          Ev("record", 0) >>
    /\ steps' = Append(steps, StepRecord(step_count, llm_response.text, next_goal))
    /\ pc' = "loop"
    /\ UNCHANGED << outside_vars, config_vars, status, output, prompt, step_count, llm_response, init_i,
                    match_i, next_goal, llm_log, raised >>

(***************************************************************************)
(* After the loop.                                                         *)
(***************************************************************************)
\* A step-limit block that does not look at the status.
AfterLoopAlways ==
    /\ pc = "after"
    /\ IF step_count >= max_steps
       THEN /\ status' = "finished"
            /\ output' = StepLimitMsg
       ELSE UNCHANGED << status, output >>
    /\ pc' = "recording"
    /\ UNCHANGED << outside_vars, config_vars, steps, urls, screenshots, errors, prompt, step_count, tabs,
                    current_tab_index, llm_response, init_i, match_i, next_goal, llm_log,
                    trace, pages_made, faults, raised >>

\* Lines 936-938.
AfterLoop ==
    /\ pc = "after"
    /\ IF step_count >= max_steps /\ status = "running"
       THEN /\ status' = "finished"
            /\ output' = StepLimitMsg
       ELSE UNCHANGED << status, output >>
    /\ pc' = "recording"
    /\ UNCHANGED << outside_vars, config_vars, steps, urls, screenshots, errors, prompt, step_count, tabs,
                    current_tab_index, llm_response, init_i, match_i, next_goal, llm_log,
                    trace, pages_made, faults, raised >>

\* Lines 941-956 with a video file in the recording directory: shutil is a
\* local name of run_agent_task (bound by the import of line 971), not yet
\* bound at line 956, so shutil.move raises UnboundLocalError.
RenameVideo ==
    /\ pc = "recording"
    /\ save_recording
    /\ general_except("cannot access local variable 'shutil'")
    /\ UNCHANGED << outside_vars, config_vars, steps, urls, screenshots, output, prompt, step_count, tabs,
                    current_tab_index, llm_response, init_i, match_i, next_goal, llm_log,
                    trace, pages_made, faults >>

\* No recording asked for, or glob finds no video file.
NoVideo ==
    /\ pc = "recording"
    /\ pc' = "close"
    /\ UNCHANGED << outside_vars, config_vars, result_vars, prompt, step_count, tabs, current_tab_index,
                    llm_response, init_i, match_i, next_goal, llm_log, trace, pages_made,
                    faults, raised >>

\* Lines 960-961 and the exit of the async with block.
CloseBrowser ==
    /\ pc = "close"
    /\ pc' = "finally"
    /\ UNCHANGED << outside_vars, config_vars, result_vars, prompt, step_count, tabs, current_tab_index,
                    llm_response, init_i, match_i, next_goal, llm_log, trace, pages_made,
                    faults, raised >>

CloseRaises ==
    /\ pc = "close"
    /\ faults < MaxFaults
    /\ faults' = faults + 1
    /\ general_except("close failed")
    /\ UNCHANGED << outside_vars, config_vars, steps, urls, screenshots, output, prompt, step_count, tabs,
                    current_tab_index, llm_response, init_i, match_i, next_goal, llm_log,
                    trace, pages_made >>

\* Lines 968-977: the temporary directory is removed, the result returned.
Return ==
    /\ pc = "finally"
    /\ pc' = "done"
    /\ UNCHANGED << outside_vars, config_vars, result_vars, prompt, step_count, tabs, current_tab_index,
                    llm_response, init_i, match_i, next_goal, llm_log, trace, pages_made,
                    faults, raised >>

Next ==
    \/ Prepare \/ PrepareRaises \/ SetupBrowser \/ SetupRaises
    \/ InitialAction \/ InitialActionSkipped \/ InitialActionRaises \/ InitialDone
    \/ StepBegin \/ LoopExit \/ VisionRaises
    \/ LLMUnparsable \/ LLMActions \/ LLMCompletion \/ LLMNoAction
    \/ DispatchBuiltin \/ DispatchRaises \/ DispatchCustom \/ UnknownAction \/ ForExhausted
    \/ RecordStep
    \/ AfterLoop \/ RenameVideo \/ NoVideo \/ CloseBrowser \/ CloseRaises \/ Return

Spec == Init /\ [][Next]_vars

(***************************************************************************)
(* Properties.                                                             *)
(***************************************************************************)
InLoop == pc \in {"loop", "step", "actions", "post"}
LoopLeft == pc \in {"after", "recording", "close", "finally", "done"}

\* The events the transition adds to the trace of the current step.
Added(kinds) ==
    /\ Len(trace') > Len(trace)
    /\ \E i \in (Len(trace) + 1)..Len(trace') : trace'[i].ev \in kinds

Events(kinds) == { i \in 1..Len(trace) : trace[i].ev \in kinds }

\* The reply holds a call of a built-in or registered custom action.
HasRecognizedAction(r) ==
    \E i \in 1..Len(FindAll(r.segs)) :
        \/ FindAll(r.segs)[i].name \in DOMAIN action_map
        \/ FindAll(r.segs)[i].name \in controller_actions

\* C1: the step counter is 0 until the loop starts, every loop iteration (and
\* nothing else) raises it by exactly 1, and for max_steps >= 0 it never
\* exceeds max_steps.
StepCounterBounded ==
    /\ [](pc \in {"entry", "setup", "initial", "raised"} => step_count = 0)
    /\ [](max_steps >= 0 => (0 <= step_count /\ step_count <= max_steps))
    /\ [][IF pc = "loop" /\ pc' = "step"
          THEN step_count' = step_count + 1
          ELSE step_count' = step_count]_vars

\* A run that has used its whole budget of at least two steps.
StepCounterAtBudget ==
    /\ pc = "step"
    /\ max_steps >= 2
    /\ step_count = max_steps

\* C3: a reply with a completion phrase and no call syntax makes the loop set
\* status to finished and the output to the raw reply and leave the loop; once
\* the loop is left there is no further LLM call and no further action.
CompletionEndsLoop ==
    /\ [][(/\ pc = "step"
           /\ llm_calls' = llm_calls + 1
           /\ ~llm_response'.none
           /\ FindAll(llm_response'.segs) = << >>
           /\ HasCompletionIndicator(llm_response'))
          => (/\ status' = "finished"
              /\ output' = llm_response'.text
              /\ pc' = "after")]_vars
    /\ [][LoopLeft => (LoopLeft' /\ llm_log' = llm_log /\ trace' = trace
                       /\ step_count' = step_count /\ steps' = steps)]_vars

\* The loop has just been left on the reply "task completed".
CompletionSeen ==
    /\ pc = "after"
    /\ llm_response = R_completed
    /\ status = "finished"
    /\ output = "task completed"
    /\ step_count < max_steps

\* The reply of the current step, once call_llm has returned in it.
Replied == Events({"llm", "llm_exc"}) # {}

\* C2: with max_steps = N >= 0 and no reply holding a completion indicator or
\* a recognized action, the run makes exactly N LLM calls and returns status
\* finished with the step-limit message (stated for the runs without initial
\* actions in which nothing of the environment fails).
StepLimitReturnsFinished ==
    (/\ pc = "done"
     /\ max_steps >= 0
     /\ initial_actions = << >>
     /\ faults = 0
     /\ \A i \in 1..Len(llm_log) :
           ~HasCompletionIndicator(llm_log[i]) /\ ~HasRecognizedAction(llm_log[i]))
    => (/\ llm_calls = max_steps
        /\ status = "finished"
        /\ output = StepLimitMsg)

\* C4: a step whose reply has no recognized action and no completion
\* indicator runs no action handler and adds no screenshot, leaves tabs and
\* URL list alone, and ends with a corrective instruction on the prompt.
NoActionNoSideEffect ==
    (/\ pc = "loop"
     /\ Replied
     /\ ~llm_response.none
     /\ ~HasRecognizedAction(llm_response)
     /\ ~HasCompletionIndicator(llm_response))
    => (/\ Events({"handler", "handler_exc", "shot", "shot_exc"}) = {}
        /\ prompt[Len(prompt)].kind
              \in {AskForAction.kind, "Erro: acao desconhecida. Use uma acao valida."})

\* C5: in every step at most one invocation of the reply is dispatched,
\* whatever the outcome of the first one.
OnlyFirstDispatched == Cardinality(Events({"dispatch"})) <= 1

\* C6: after an unknown action name the step runs no action handler and no
\* browser operation, and the error list and the prompt name the action.
UnknownActionRunsNothing ==
    \A i \in Events({"unknown"}) :
        /\ \A j \in Events({"dispatch", "handler", "handler_exc", "shot", "shot_exc"}) : j < i
        /\ \E k \in 1..Len(errors) :
              errors[k] = "Acao desconhecida: " \o action_matches[trace[i].i].name
        /\ \E k \in 1..Len(prompt) :
              /\ prompt[k].kind = "Erro: acao desconhecida. Use uma acao valida."
              /\ prompt[k].name = action_matches[trace[i].i].name

AllExceptions == {"vision_exc", "llm_exc", "parse_exc", "dispatch_exc", "handler_exc", "shot_exc"}
BoundaryExceptions == {"vision_exc", "parse_exc"}

FatalIsSoleErrorAndOutput ==
    (pc = "done" /\ raised # None)
    => (/\ status = "failed"
        /\ errors = << "Erro geral: " \o raised >>
        /\ output \in {raised, "Erro geral: " \o raised})

\* C9: no failure leaves run_agent_task as an uncaught exception.
NoUncaughtException == pc # "raised"

\* C10: status only moves from running to finished or failed; a finished or
\* failed status never changes again.
TerminalStatusAbsorbing ==
    /\ [](status \in {"running", "finished", "failed"})
    /\ [][status # "running" => status' = status]_vars

(***************************************************************************)
(* app.py: execute_task_async, started in a thread by the buttons of        *)
(* task_detail_page.  Every session has its own st.session_state; each      *)
(* "with get_db_session()" block that commits is one step on the stored     *)
(* task, and threads interleave between such blocks.                        *)
(***************************************************************************)
StaleSeconds == 1800

\* run_agent_task as execute_task_async sees it: the result it returns.
AgentResults ==
    { [status |-> "finished", output |-> "task completed",
       steps |-> << "step 1" >>, urls |-> << "https://a" >>,
       screenshots |-> << "shot 1" >>, errors |-> << >>],
      [status |-> "failed", output |-> "",
       steps |-> << >>, urls |-> << >>, screenshots |-> << >>,
       errors |-> << "Erro geral: launch failed" >>] }

\* The run of run_agent_task has no place in the runs of execute_task_async.
AgentNotStarted ==
    /\ pc = "entry"
    /\ max_steps = 0
    /\ use_vision = FALSE
    /\ save_recording = FALSE
    /\ initial_actions = << >>
    /\ llm_replies = << >>
    /\ status = "running"
    /\ steps = << >>
    /\ urls = << >>
    /\ screenshots = << >>
    /\ errors = << >>
    /\ output = ""
    /\ prompt = << >>
    /\ step_count = 0
    /\ tabs = << >>
    /\ current_tab_index = 0
    /\ llm_response = NoneReply
    /\ init_i = 1
    /\ match_i = 1
    /\ next_goal = NoGoal
    /\ llm_log = << >>
    /\ trace = << >>
    /\ pages_made = 0
    /\ faults = 0
    /\ raised = None

agent_vars == << pc, config_vars, result_vars, prompt, step_count, tabs, current_tab_index,
                 llm_response, init_i, match_i, next_goal, llm_log, trace, pages_made,
                 faults, raised >>

AppInit == AgentNotStarted /\ AppNotStarted /\ applied = NoCall /\ VaultEmpty /\ ControllerCreated

\* threading.Thread(target=execute_task_thread).start() after task_running = True.
StartThread(s, req) ==
    /\ thread[s].calls < MaxCalls
    /\ thread' = [thread EXCEPT ![s] = [pc |-> "guard", req |-> req, calls |-> @.calls + 1,
                                        result |-> None, returned |-> "none",
                                        signalled |-> (req = "rerun")]]

\* execute_task_thread's finally (lines 680-682) once execute_task_async is left.
ThreadEnds(s, how) ==
    thread' = [thread EXCEPT ![s].pc = "idle", ![s].returned = how, ![s].signalled = FALSE]

\* Lines 893-905: the page shows a created task and "Executar Tarefa" is pressed.
ClickRun(s) ==
    /\ task_db.status = "created"
    /\ ~session_state[s].task_running
    /\ StartThread(s, "run")
    /\ session_state' = [session_state EXCEPT ![s].task_running = TRUE]
    /\ UNCHANGED << agent_vars, controller, applied, vault_vars, task_db, clock, started_at >>

\* Lines 915-926: the page shows a finished or failed task and "Executar
\* Novamente" is pressed while no thread of the session runs.
ClickRerun(s) ==
    /\ task_db.status \in {"finished", "failed"}
    /\ ~session_state[s].task_running
    /\ StartThread(s, "rerun")
    /\ session_state' = [session_state EXCEPT ![s].force_rerun_task = "True",
                                               ![s].task_running = TRUE]
    /\ UNCHANGED << agent_vars, controller, applied, vault_vars, task_db, clock, started_at >>

\* Lines 916-918: the same button while the session's thread still runs: only
\* the flag is set.
ClickRerunBusy(s) ==
    /\ task_db.status \in {"finished", "failed"}
    /\ session_state[s].task_running
    /\ session_state[s].force_rerun_task # "True"
    /\ session_state' = [session_state EXCEPT ![s].force_rerun_task = "True"]
    /\ thread' = [thread EXCEPT ![s].signalled = TRUE]
    /\ UNCHANGED << agent_vars, controller, applied, vault_vars, task_db, clock, started_at >>

\* time_diff.total_seconds() > 1800 (lines 699-703).
IsStale == clock - task_db.created_at > StaleSeconds

\* st.session_state.get('force_rerun_task', False) (line 713).
ForceRerun(s) == session_state[s].force_rerun_task = "True"

\* A guard that would reset the stored status while refusing the call.
RejectResetting(s) ==
    /\ ThreadEnds(s, "rejected")
    /\ session_state' = [session_state EXCEPT ![s].task_running = FALSE]
    /\ task_db' = [task_db EXCEPT !.status = "created"]
    /\ UNCHANGED << started_at >>

\* The return of an error by the guard (lines 710 and 715): nothing is written.
Reject(s) ==
    /\ ThreadEnds(s, "rejected")
    /\ session_state' = [session_state EXCEPT ![s].task_running = FALSE]
    /\ UNCHANGED << task_db, started_at >>

\* Lines 689-715, the task is running and not stale, or it is finished or
\* failed and the session's flag is not set: the call returns an error.
GuardRejects(s) ==
    /\ thread[s].pc = "guard"
    /\ \/ task_db.status = "running" /\ ~IsStale
       \/ task_db.status \in {"finished", "failed"} /\ ~ForceRerun(s)
    /\ Reject(s)
    /\ UNCHANGED << agent_vars, controller, applied, vault_vars, clock >>

\* Lines 699-706: the task is running and created more than 30 minutes ago:
\* its status is reset to created and committed.
GuardResets(s) ==
    /\ thread[s].pc = "guard"
    /\ task_db.status = "running"
    /\ IsStale
    /\ task_db' = [task_db EXCEPT !.status = "created"]
    /\ thread' = [thread EXCEPT ![s].pc = "set_running"]
    /\ UNCHANGED << agent_vars, controller, applied, vault_vars, clock, session_state, started_at >>

\* Lines 689-715 fall through: the task is created, or finished or failed with
\* the session's flag set.
GuardPasses(s) ==
    /\ thread[s].pc = "guard"
    /\ \/ task_db.status = "created"
       \/ task_db.status \in {"finished", "failed"} /\ ForceRerun(s)
    /\ thread' = [thread EXCEPT ![s].pc = "set_running"]
    /\ UNCHANGED << agent_vars, controller, applied, vault_vars, task_db, clock, session_state, started_at >>

\* Lines 717-721: a second session block stores status running.
SetRunning(s) ==
    /\ thread[s].pc = "set_running"
    /\ task_db' = [task_db EXCEPT !.status = "running"]
    /\ started_at' = clock
    /\ thread' = [thread EXCEPT ![s].pc = "prepare"]
    /\ UNCHANGED << agent_vars, controller, applied, vault_vars, clock, session_state >>

\* Lines 723-751: the API keys are read, the LLM info and the sensitive data
\* are put together.
PrepareAgent(s) ==
    /\ thread[s].pc = "prepare"
    /\ thread' = [thread EXCEPT ![s].pc = "run"]
    /\ UNCHANGED << agent_vars, controller, applied, vault_vars, task_db, clock, session_state, started_at >>

\* Lines 723-751 are outside the try of line 753: a failing query of the API
\* keys, or the read of an attribute of the task of the closed session,
\* leaves execute_task_async; execute_task_thread catches it (lines 677-681).
PrepareAgentRaises(s) ==
    /\ thread[s].pc = "prepare"
    /\ ThreadEnds(s, "raised")
    /\ session_state' = [session_state EXCEPT ![s].task_running = FALSE]
    /\ UNCHANGED << agent_vars, controller, applied, vault_vars, task_db, clock, started_at >>

\* Line 756: run_agent_task returns its result.
AgentReturns(s) ==
    /\ thread[s].pc = "run"
    /\ \E r \in AgentResults : thread' = [thread EXCEPT ![s].pc = "persist", ![s].result = r]
    /\ UNCHANGED << agent_vars, controller, applied, vault_vars, task_db, clock, session_state, started_at >>

\* Lines 812-828: the handler of the try of line 753 stores status failed and
\* the message; the flag of the session is left as it is.
execute_except(s) ==
    /\ task_db' = [task_db EXCEPT !.status = "failed", !.output = "Erro na execucao"]
    /\ ThreadEnds(s, "failed")
    /\ session_state' = [session_state EXCEPT ![s].task_running = FALSE]
    /\ UNCHANGED << started_at >>

\* Line 756 raises (what run_agent_task does not catch, or the read of
\* st.session_state.browser_config).
AgentRaises(s) ==
    /\ thread[s].pc = "run"
    /\ execute_except(s)
    /\ UNCHANGED << agent_vars, controller, applied, vault_vars, clock >>

\* Lines 773-775: the status to store.
StoredStatus(r) ==
    IF r.status \in {"created", "running", "finished", "failed"}
    THEN r.status
    ELSE IF r.errors = << >> THEN "finished" ELSE "failed"

\* Lines 765-803: the result is stored in the Task and TaskHistory rows.
Persist(s) ==
    /\ thread[s].pc = "persist"
    /\ LET r == thread[s].result IN
       task_db' = [task_db EXCEPT !.status = StoredStatus(r),
                                   !.output = r.output,
                                   !.history = [steps |-> r.steps, urls |-> r.urls,
                                                screenshots |-> r.screenshots,
                                                errors |-> r.errors, saved |-> TRUE]]
    /\ thread' = [thread EXCEPT ![s].pc = "clear"]
    /\ UNCHANGED << agent_vars, controller, applied, vault_vars, clock, session_state, started_at >>

\* Lines 765-803: session.commit() raises; nothing of the block is stored and
\* the handler of lines 812-828 runs.
PersistRaises(s) ==
    /\ thread[s].pc = "persist"
    /\ execute_except(s)
    /\ UNCHANGED << agent_vars, controller, applied, vault_vars, clock >>

\* Lines 805-810: the flag of the session is deleted and the result returned.
ClearForce(s) ==
    /\ thread[s].pc = "clear"
    /\ ThreadEnds(s, "result")
    /\ session_state' = [session_state EXCEPT ![s].force_rerun_task = "absent",
                                               ![s].task_running = FALSE]
    /\ UNCHANGED << agent_vars, controller, applied, vault_vars, task_db, clock, started_at >>

\* Time passes.
Tick ==
    /\ clock < MaxTicks * TickSeconds
    /\ clock' = clock + TickSeconds
    /\ UNCHANGED << agent_vars, controller, applied, vault_vars, task_db, session_state, thread, started_at >>

AppNext ==
    \/ \E s \in Sessions : ClickRun(s)
    \/ \E s \in Sessions : ClickRerun(s)
    \/ \E s \in Sessions : ClickRerunBusy(s)
    \/ \E s \in Sessions : GuardRejects(s)
    \/ \E s \in Sessions : GuardResets(s)
    \/ \E s \in Sessions : GuardPasses(s)
    \/ \E s \in Sessions : SetRunning(s)
    \/ \E s \in Sessions : PrepareAgent(s)
    \/ \E s \in Sessions : PrepareAgentRaises(s)
    \/ \E s \in Sessions : AgentReturns(s)
    \/ \E s \in Sessions : AgentRaises(s)
    \/ \E s \in Sessions : Persist(s)
    \/ \E s \in Sessions : PersistRaises(s)
    \/ \E s \in Sessions : ClearForce(s)
    \/ Tick

AppSpec == AppInit /\ [][AppNext]_vars

\* The sessions whose call has passed the guard and not yet returned.
PastGuard == { s \in Sessions : thread[s].pc \in {"set_running", "prepare", "run", "persist", "clear"} }

\* The sessions whose call is inside run_agent_task.
InAgent == { s \in Sessions : thread[s].pc = "run" }

\* C11: of two concurrent calls of execute_task_async for the same task at
\* most one passes the status guard and runs the agent loop.
AtMostOneRuns == Cardinality(InAgent) <= 1

\* The call of session s passes the guard in this step (with or without a reset).
PassesGuard(s) == thread[s].pc = "guard" /\ thread'[s].pc = "set_running"

\* C12: a call on a finished or failed task passes the guard only when
\* "Executar Novamente" (the explicit signal to run again) was pressed for
\* this call, that is at its start or while it was under way; the stored
\* status is then set to running before the loop starts.
RerunOnlyOnRequest ==
    /\ [][\A s \in Sessions :
            (PassesGuard(s) /\ task_db.status \in {"finished", "failed"})
            => thread[s].signalled]_vars
    /\ [][\A s \in Sessions :
            (thread[s].pc = "set_running" /\ thread'[s].pc # "set_running")
            => (thread'[s].pc = "prepare" /\ task_db'.status = "running")]_vars

\* The call of session s is refused in this step.
Rejected(s) == thread[s].pc = "guard" /\ thread'[s].pc = "idle"

\* C13: a refused start returns its error from the guard, before anything of
\* the agent has run, and leaves the stored status, output and history
\* (steps, urls, screenshots, errors) as they were.
RejectionTouchesNothing ==
    /\ [][\A s \in Sessions :
            Rejected(s)
            => (/\ \/ task_db.status = "running" /\ ~IsStale
                   \/ task_db.status \in {"finished", "failed"} /\ ~ForceRerun(s)
                /\ thread'[s].returned = "rejected"
                /\ thread'[s].result = None
                /\ task_db' = task_db)]_vars
    /\ [](\A s \in Sessions : thread[s].pc \in {"guard", "set_running", "prepare"}
                               => thread[s].result = None)

\* A start was refused because the task, which has a stored history of an
\* earlier run, was running again.
RejectionSeen ==
    \E s \in Sessions :
        /\ thread[s].returned = "rejected"
        /\ thread[s].req = "rerun"
        /\ task_db.status = "running"
        /\ task_db.history.saved

\* C14: a running task is reset for a fresh run only when it has been running
\* for longer than the threshold of 30 minutes; one that entered running more
\* recently is refused.
ResetOnlyWhenRunningLong ==
    [][\A s \in Sessions :
         (thread[s].pc = "guard" /\ task_db.status = "running" /\ thread'[s].pc # "guard")
         => IF clock - started_at > StaleSeconds
            THEN PassesGuard(s) /\ task_db'.status = "created"
            ELSE Rejected(s)]_vars

(***************************************************************************)
(* The tab handlers of run_agent_task called in any order on the tab set   *)
(* that the browser setup leaves (lines 305-311), with the browser free to *)
(* fail inside a call.                                                     *)
(***************************************************************************)
\* The state after lines 251-311 with no initial action.
BrowserReady ==
    /\ pc = "initial"
    /\ max_steps = 0
    /\ use_vision = FALSE
    /\ save_recording = FALSE
    /\ initial_actions = << >>
    /\ llm_replies = << >>
    /\ status = "running"
    /\ steps = << >>
    /\ urls = << >>
    /\ screenshots = << >>
    /\ errors = << >>
    /\ output = ""
    /\ prompt = << Note("system prompt and task") >>
    /\ step_count = 0
    /\ tabs = << 1 >>
    /\ current_tab_index = 0
    /\ llm_response = NoneReply
    /\ init_i = 1
    /\ match_i = 1
    /\ next_goal = NoGoal
    /\ llm_log = << >>
    /\ trace = << >>
    /\ pages_made = 1
    /\ faults = 0
    /\ raised = None

\* The calls tried: the index of switch_tab as an initial action gives it
\* (an integer) and as the parser of LLM replies gives it (a string).
HandlerCalls ==
    { C("open_tab", << >>), C("open_tab", << P("example.com") >>),
      C("switch_tab", << N(0) >>), C("switch_tab", << N(1) >>), C("switch_tab", << N(2) >>),
      C("switch_tab", << N(-1) >>), C("switch_tab", << P("1") >>),
      C("close_tab", << >>),
      C("navigate", << P("example.com") >>), C("click", << P("#a") >>),
      C("wait", << N(5) >>), C("wait", << N(45) >>), C("wait", << P("5") >>),
      C("wait", << P("45") >>) }

TabsInit == BrowserReady /\ AppNotStarted /\ applied = NoCall /\ VaultEmpty /\ ControllerCreated

\* await action_func(*params) (lines 833-843) on the current tab set.
CallHandler ==
    /\ pc = "initial"
    /\ IF applied = NoCall THEN TRUE ELSE applied.n < MaxTabCalls
    /\ \E c \in HandlerCalls :
         \E env \in Envs(action_map[c.name], Shared, c.params) :
            /\ Allowed(env)
            /\ faults' = Count(env)
            /\ LET r == Run(action_map[c.name], Shared, c.params, env)
               IN /\ SetShared(r.st)
                  /\ applied' = [handler |-> action_map[c.name], params |-> c.params,
                                 env |-> env, before |-> Shared, res |-> r.res,
                                 n |-> IF applied = NoCall THEN 1 ELSE applied.n + 1]
    /\ UNCHANGED << app_vars, vault_vars, controller, pc, config_vars, status, steps, output, prompt,
                    step_count, llm_response, init_i, match_i, next_goal, llm_log, trace,
                    raised >>

TabsNext == CallHandler

TabsSpec == TabsInit /\ [][TabsNext]_vars

\* C15: close_tab on a tab set of exactly one tab returns a failed result and
\* leaves the tab list and the current index as they were.
CloseLastTabRejected ==
    (applied # NoCall /\ applied.handler = "close_tab" /\ Len(applied.before.tabs) = 1)
    => (/\ ~applied.res.success
        /\ applied.res.error = "Nao e possivel fechar a ultima aba"
        /\ tabs = applied.before.tabs
        /\ Len(tabs) = 1
        /\ current_tab_index = applied.before.cur
        /\ pages_made = applied.before.made)

\* close_tab was called on the one tab left after another tab had been
\* opened and closed.
CloseLastTabTried ==
    /\ applied # NoCall
    /\ applied.handler = "close_tab"
    /\ Len(applied.before.tabs) = 1
    /\ pages_made >= 2
    /\ ~applied.res.success

\* C16: after any sequence of open_tab, switch_tab, close_tab and other
\* actions, failing ones included, the tab list is not empty and the current
\* index is a position of it.
TabsValid ==
    /\ Len(tabs) >= 1
    /\ 0 <= current_tab_index
    /\ current_tab_index < Len(tabs)

\* Three pages have been made, two tabs are left, the browser has failed
\* inside a call, and an index outside the tab list was asked for last.
TabsStressed ==
    /\ applied # NoCall
    /\ applied.handler = "switch_tab"
    /\ applied.params = << N(2) >>
    /\ ~applied.res.success
    /\ Len(tabs) = 2
    /\ pages_made = 3
    /\ faults >= 1

(***************************************************************************)
(* Texts.  Where the characters of a text matter (masking and unmasking)   *)
(* a text is the sequence of its characters.                               *)
(***************************************************************************)
\* sub in s
Occurs(sub, s) ==
    \E i \in 0..(Len(s) - Len(sub)) : SubSeq(s, i + 1, i + Len(sub)) = sub

\* s.startswith(sub)
StartsWith(s, sub) == Len(sub) <= Len(s) /\ SubSeq(s, 1, Len(sub)) = sub

\* s.replace(old, new): every occurrence, left to right, without overlap; an
\* empty old puts new before every character and at the end.
RECURSIVE Replace(_, _, _)
Replace(s, old, new) ==
    IF old = << >>
    THEN new \o (IF s = << >> THEN << >> ELSE << Head(s) >> \o Replace(Tail(s), old, new))
    ELSE IF s = << >> THEN << >>
    ELSE IF StartsWith(s, old)
         THEN new \o Replace(SubSeq(s, Len(old) + 1, Len(s)), old, new)
         ELSE << Head(s) >> \o Replace(Tail(s), old, new)

\* f"[{placeholder}]"
Bracketed(placeholder) == << "[" >> \o placeholder \o << "]" >>

\* An entry of a sensitive data map {placeholder: value}; a map is the
\* sequence of its entries in the order dict.items() gives them.
Entry(placeholder, value) == [placeholder |-> placeholder, value |-> value]

(***************************************************************************)
(* utils/sensitive_data.py and utils/security.py: masking and unmasking.   *)
(***************************************************************************)
\* The loop of mask_prompt, filter_page_content and mask_sensitive_data.
RECURSIVE MaskLoop(_, _)
MaskLoop(items, masked_text) ==
    IF items = << >> THEN masked_text
    ELSE LET value == Head(items).value
             placeholder == Head(items).placeholder
         IN MaskLoop(Tail(items),
                     IF value # << >> /\ Occurs(value, masked_text)
                     THEN Replace(masked_text, value, Bracketed(placeholder))
                     ELSE masked_text)

\* SecurityManager.mask_sensitive_data(text, sensitive_data)
mask_sensitive_data(text, sensitive_data) ==
    IF text = << >> \/ sensitive_data = << >> THEN text ELSE MaskLoop(sensitive_data, text)

\* SensitiveDataManager.mask_prompt(text)
mask_prompt(text) ==
    IF text = << >> \/ sensitive_placeholders = << >> THEN text
    ELSE MaskLoop(sensitive_placeholders, text)

\* SensitiveDataManager.filter_page_content(content)
filter_page_content(content) ==
    IF content = << >> \/ sensitive_placeholders = << >> THEN content
    ELSE MaskLoop(sensitive_placeholders, content)

\* An unmasking that stops after the first entry of the map.
UnmaskFirstOnly(items, unmasked_text) ==
    IF items = << >> THEN unmasked_text
    ELSE Replace(Replace(unmasked_text, Bracketed(Head(items).placeholder), Head(items).value),
                 Head(items).placeholder, Head(items).value)

\* The loop of unmask_sensitive_data: the bracketed placeholder, then the bare one.
RECURSIVE UnmaskLoop(_, _)
UnmaskLoop(items, unmasked_text) ==
    IF items = << >> THEN unmasked_text
    ELSE LET value == Head(items).value
             placeholder == Head(items).placeholder
         IN UnmaskLoop(Tail(items),
                       Replace(Replace(unmasked_text, Bracketed(placeholder), value),
                               placeholder, value))

\* SecurityManager.unmask_sensitive_data(text, sensitive_data)
unmask_sensitive_data(text, sensitive_data) ==
    IF text = << >> \/ sensitive_data = << >> THEN text ELSE UnmaskLoop(sensitive_data, text)

\* The inner loop of unmask_action over the vault for one string value.
RECURSIVE UnmaskValue(_, _)
UnmaskValue(items, value) ==
    IF items = << >> THEN value
    ELSE LET sensitive_value == Head(items).value
             placeholder == Head(items).placeholder
         IN UnmaskValue(Tail(items),
                        IF Occurs(Bracketed(placeholder), value)
                        THEN Replace(value, Bracketed(placeholder), sensitive_value)
                        ELSE IF placeholder = value THEN sensitive_value ELSE value)

\* SensitiveDataManager.unmask_action(action_name, params) for params that
\* hold one string value.
unmask_action(value) ==
    IF sensitive_placeholders = << >> THEN value ELSE UnmaskValue(sensitive_placeholders, value)

(***************************************************************************)
(* Masking and unmasking applied to every text and every vault content     *)
(* within the bounds.                                                      *)
(***************************************************************************)
Chars == {"a", "b", "k", "[", "]"}

Texts == UNION { [1..n -> Chars] : n \in 0..MaxTextLen }

\* Placeholder names and secret values tried (the empty value included).
Placeholders == { << "k" >>, << "p" >>, << "k", "p" >> }
SecretValues == { << >>, << "a" >>, << "b" >>, << "k" >>, << "a", "b" >> }

\* The sensitive data maps: sequences of entries with distinct placeholders.
SensitiveMaps ==
    { m \in UNION { [1..n -> [placeholder : Placeholders, value : SecretValues]] : n \in 0..MaxEntries } :
        \A i, j \in DOMAIN m : i # j => m[i].placeholder # m[j].placeholder }

MaskInit ==
    /\ AgentNotStarted
    /\ AppNotStarted
    /\ applied = NoCall
    /\ sensitive_placeholders \in SensitiveMaps
    /\ task_prompts = << >>
    /\ shown = [op |-> "none"]
    /\ ControllerCreated

\* What an operation on a text is remembered as: the map used, the text
\* given, the masked text and the text unmasked again.
Shown(op, data, text, out, back) ==
    [op |-> op, data |-> data, text |-> text, out |-> out, back |-> back]

\* mask_prompt(text), then unmask_action on the masked text as a parameter.
MaskPrompt ==
    /\ shown.op = "none"
    /\ \E text \in Texts :
         shown' = Shown("mask_prompt", sensitive_placeholders, text,
                        mask_prompt(text), unmask_action(mask_prompt(text)))
    /\ UNCHANGED << agent_vars, app_vars, controller, applied, sensitive_placeholders, task_prompts >>

\* filter_page_content(content)
FilterPageContent ==
    /\ shown.op = "none"
    /\ \E content \in Texts :
         shown' = Shown("filter_page_content", sensitive_placeholders, content,
                        filter_page_content(content), filter_page_content(content))
    /\ UNCHANGED << agent_vars, app_vars, controller, applied, sensitive_placeholders, task_prompts >>

\* mask_sensitive_data(text, data), then unmask_sensitive_data(masked, data).
MaskSensitiveData ==
    /\ shown.op = "none"
    /\ \E text \in Texts :
         LET data == sensitive_placeholders
             masked == mask_sensitive_data(text, data)
         IN shown' = Shown("mask_sensitive_data", data, text,
                           masked, unmask_sensitive_data(masked, data))
    /\ UNCHANGED << agent_vars, app_vars, controller, applied, sensitive_placeholders, task_prompts >>

MaskNext == MaskPrompt \/ FilterPageContent \/ MaskSensitiveData

MaskSpec == MaskInit /\ [][MaskNext]_vars

\* A mask operation has been applied.
Masked == shown.op \in {"mask_prompt", "filter_page_content", "mask_sensitive_data"}

\* C19: for every vault content and every text the output of mask
\* (mask_prompt, filter_page_content, mask_sensitive_data) holds no
\* configured non-empty secret value as a substring.
MaskLeavesNoSecret ==
    Masked => \A i \in DOMAIN shown.data :
                 shown.data[i].value # << >> => ~Occurs(shown.data[i].value, shown.out)

\* The characters of a text.
CharsOf(text) == { text[i] : i \in DOMAIN text }

\* The secret values of the map do not overlap: no two of them share a character.
NonOverlapping(data) ==
    \A i, j \in DOMAIN data : i # j => CharsOf(data[i].value) \cap CharsOf(data[j].value) = {}

\* The text holds the placeholder syntax [placeholder] of an entry of the map.
HasPlaceholderSyntax(text, data) ==
    \E i \in DOMAIN data : Occurs(Bracketed(data[i].placeholder), text)

\* A mask operation followed by its unmask operation has been applied.
RoundTripped == shown.op \in {"mask_prompt", "mask_sensitive_data"}

\* Every entry of the map has a secret value.
NoEmptySecret(data) == \A i \in DOMAIN data : data[i].value # << >>

KeptApart(text, data) ==
    /\ \A i \in DOMAIN data : ~Occurs(data[i].placeholder, text)
    /\ \A i, j \in DOMAIN data :
          data[i].value # << >> => ~Occurs(data[i].value, Bracketed(data[j].placeholder))
    /\ \A i, j \in DOMAIN data :
          i # j => ~Occurs(data[i].placeholder, Bracketed(data[j].placeholder))

Put(d, e) ==
    IF \E i \in DOMAIN d : d[i].placeholder = e.placeholder
    THEN [i \in DOMAIN d |-> IF d[i].placeholder = e.placeholder THEN e ELSE d[i]]
    ELSE Append(d, e)

RECURSIVE Update(_, _)
Update(d, data) == IF data = << >> THEN d ELSE Update(Put(d, Head(data)), Tail(data))

\* SensitiveDataManager.add_sensitive_data(data): the vault afterwards.
add_sensitive_data(data) ==
    IF data = << >> THEN sensitive_placeholders ELSE Update(sensitive_placeholders, data)

\* SensitiveDataManager.get_placeholder_description() of a vault: the
\* placeholders it lists.
get_placeholder_description(vault) == [i \in DOMAIN vault |-> vault[i].placeholder]

\* Lines 229-237: the vault the task masks and describes with.
VaultAtStart(data) == add_sensitive_data(data)

\* The sensitive data maps and the instructions of the tasks.
TaskMaps ==
    { << >>,
      << Entry(<< "k" >>, << "a" >>) >>,
      << Entry(<< "p" >>, << "b" >>) >>,
      << Entry(<< "k" >>, << "b" >>) >>,
      << Entry(<< "k" >>, << "a" >>), Entry(<< "p" >>, << "b" >>) >> }

Instructions == { << "a", "b" >>, << "k" >> }

\* Lines 228-237 of a task that starts.
StartTask ==
    /\ shown.op = "none"
    /\ Len(task_prompts) < MaxTasks
    /\ \E sensitive_data \in TaskMaps, task_instructions \in Instructions :
         LET vault == IF sensitive_data # << >> THEN VaultAtStart(sensitive_data)
                      ELSE sensitive_placeholders
         IN /\ sensitive_placeholders' = vault
            /\ task_prompts' =
                 Append(task_prompts,
                        [sensitive_data |-> sensitive_data,
                         task_instructions |-> task_instructions,
                         masked |-> IF sensitive_data # << >>
                                    THEN mask_sensitive_data(task_instructions, vault)
                                    ELSE task_instructions,
                         described |-> IF sensitive_data # << >>
                                       THEN get_placeholder_description(vault)
                                       ELSE << >>,
                         vault |-> IF sensitive_data # << >> THEN vault ELSE << >>,
                         alone |-> \A t \in DOMAIN task_prompts : task_prompts[t].done,
                         done |-> FALSE])
    /\ UNCHANGED << agent_vars, app_vars, controller, applied, shown >>

\* Lines 395-403 of type_text: the text given to page.fill.
RECURSIVE FillLoop(_, _, _)
FillLoop(items, text, sensitive_text) ==
    IF items = << >> THEN sensitive_text
    ELSE LET value == Head(items).value
             placeholder == Head(items).placeholder
         IN FillLoop(Tail(items), text,
                     IF Occurs(Bracketed(placeholder), text)
                     THEN Replace(text, Bracketed(placeholder), value)
                     ELSE IF placeholder = text THEN value ELSE sensitive_text)

\* Lines 423-428 of type_text: the text of the Action Result.
RECURSIVE LogLoop(_, _, _)
LogLoop(items, text, masked_text) ==
    IF items = << >> THEN masked_text
    ELSE LET value == Head(items).value
             placeholder == Head(items).placeholder
         IN LogLoop(Tail(items), text,
                    IF Occurs(value, text)
                    THEN Replace(text, value, Bracketed(placeholder))
                    ELSE masked_text)

\* Lines 475-478 of extract_text: the filter of the extracted text.
RECURSIVE ExtractFilter(_, _)
ExtractFilter(items, text) ==
    IF items = << >> THEN text
    ELSE LET value == Head(items).value
             placeholder == Head(items).placeholder
         IN ExtractFilter(Tail(items),
                          IF Occurs(value, text)
                          THEN Replace(text, value, Bracketed(placeholder))
                          ELSE text)

\* Lines 876-883: the parameter of a custom action after unmasking.
RECURSIVE CustomUnmask(_, _, _)
CustomUnmask(items, value, param) ==
    IF items = << >> THEN param
    ELSE LET sensitive_value == Head(items).value
             placeholder == Head(items).placeholder
         IN CustomUnmask(Tail(items), value,
                         IF Occurs(Bracketed(placeholder), value)
                         THEN Replace(value, Bracketed(placeholder), sensitive_value)
                         ELSE param)

\* The started tasks, each with its run under way.
Running == { t \in DOMAIN task_prompts : ~task_prompts[t].done }

\* run_agent_task of task t returns (lines 935-977): nothing of it touches
\* sensitive_data_manager.
FinishTask ==
    /\ shown.op = "none"
    /\ \E t \in Running : task_prompts' = [task_prompts EXCEPT ![t].done = TRUE]
    /\ UNCHANGED << agent_vars, app_vars, controller, applied, sensitive_placeholders, shown >>

\* Texts of a reply with the placeholders k and p in them.
TypedTexts ==
    { << "[", "k", "]", "[", "p", "]" >>, << "[", "p", "]" >>, << "p" >>,
      << "[", "k", "]", "[", "k", "]" >> }

\* type(selector, text) of task t: the Action Result text and the text filled in.
TypeText ==
    /\ shown.op = "none"
    /\ \E t \in Running, text \in Texts \cup TypedTexts :
         LET data == task_prompts[t].sensitive_data
         IN shown' = Shown("type_text", data, text,
                           LogLoop(data, text, text), FillLoop(data, text, text))
    /\ UNCHANGED << agent_vars, app_vars, controller, applied, sensitive_placeholders, task_prompts >>

\* extract_text(selector) of task t on a page element with the given text.
ExtractText ==
    /\ shown.op = "none"
    /\ \E t \in Running, text \in Texts :
         LET data == task_prompts[t].sensitive_data
         IN shown' = Shown("extract_text", data, text,
                           ExtractFilter(data, text), ExtractFilter(data, text))
    /\ UNCHANGED << agent_vars, app_vars, controller, applied, sensitive_placeholders, task_prompts >>

\* extract_all_text() of task t (lines 653-676): the global vault filters.
ExtractAllText ==
    /\ shown.op = "none"
    /\ \E t \in Running, text \in Texts :
         LET data == task_prompts[t].sensitive_data
             out == IF data # << >> THEN filter_page_content(text) ELSE text
         IN shown' = Shown("extract_all_text", data, text, out, out)
    /\ UNCHANGED << agent_vars, app_vars, controller, applied, sensitive_placeholders, task_prompts >>

\* extract_all_links() of task t (lines 622-651): the links as the page has them.
ExtractAllLinks ==
    /\ shown.op = "none"
    /\ \E t \in Running, links \in Texts :
         shown' = Shown("extract_all_links", task_prompts[t].sensitive_data, links, links, links)
    /\ UNCHANGED << agent_vars, app_vars, controller, applied, sensitive_placeholders, task_prompts >>

\* debug_message(message=text) of task t (lines 854-897, controller.py 43-47):
\* the message is unmasked, and the handler's result with it goes to the prompt.
DebugMessage ==
    /\ shown.op = "none"
    /\ \E t \in Running, text \in Texts :
         LET data == task_prompts[t].sensitive_data
             message == CustomUnmask(data, text, text)
         IN shown' = Shown("debug_message", data, text, message, message)
    /\ UNCHANGED << agent_vars, app_vars, controller, applied, sensitive_placeholders, task_prompts >>

VaultInit == AgentNotStarted /\ AppNotStarted /\ applied = NoCall /\ VaultEmpty /\ ControllerCreated

VaultNext ==
    \/ StartTask \/ FinishTask
    \/ TypeText \/ ExtractText \/ ExtractAllText \/ ExtractAllLinks \/ DebugMessage

VaultSpec == VaultInit /\ [][VaultNext]_vars

\* The text of the operation came from the LLM (an action parameter).
FromLLM == shown.op \in {"type_text", "debug_message"}

\* The operation is one of a run: its result text goes to the prompt.
OfRun == shown.op \in {"type_text", "extract_text", "extract_all_text",
                       "extract_all_links", "debug_message"}

\* The text holds a secret value of the map.
HoldsSecret(text, data) ==
    \E i \in DOMAIN data : data[i].value # << >> /\ Occurs(data[i].value, text)

\* C17: in a run with a sensitive data map no configured secret value gets
\* into the text that an action adds to the prompt, for built-in actions and
\* for custom actions whose parameters were unmasked (stated for replies of
\* an LLM that hold no secret value themselves).
SecretsStayOut ==
    (OfRun /\ (FromLLM => ~HoldsSecret(shown.text, shown.data)))
    => ~HoldsSecret(shown.out, shown.data)

\* C18: what a task masks, describes and filters with depends on its own
\* sensitive data map only, whatever other tasks were started.
VaultScopedToTask ==
    /\ \A t \in DOMAIN task_prompts :
         LET data == task_prompts[t].sensitive_data
         IN /\ task_prompts[t].masked = mask_sensitive_data(task_prompts[t].task_instructions, data)
            /\ task_prompts[t].described = get_placeholder_description(data)
    /\ shown.op = "extract_all_text" => shown.out = mask_sensitive_data(shown.text, shown.data)

(***************************************************************************)
(* A Controller on its own: functions are registered with the decorator,   *)
(* and execute_action is called with names and parameters of every kind.   *)
(***************************************************************************)
\* result = func(**params) or func(browser=browser, **params) binds: params
\* is the set of the keyword names given, browser tells whether one is given.
CallBinds(func, params, browser) ==
    IF func.takes_browser /\ browser
    THEN /\ "browser" \notin params
         /\ func.req \subseteq params
         /\ params \subseteq func.req \cup func.opt
    ELSE LET need == func.req \cup (IF func.takes_browser THEN {"browser"} ELSE {})
         IN need \subseteq params /\ params \subseteq need \cup func.opt

\* What a call of execute_action ends with.
Ret(res) == [kind |-> "returned", res |-> res, e |-> None]

\* An execute_action whose try statement has no except clause.
Propagated(action_name, e) == [kind |-> "raised", res |-> ActionResult(FALSE, None, None), e |-> e]

\* except Exception as e (lines 350-355).
Caught(action_name, e) ==
    Ret(ActionResult(FALSE, None, "Erro ao executar " \o action_name \o ": " \o e))

\* Controller.execute_action(action_name, params, browser) (lines 307-355).
Controller_execute_action(ctrl, action_name, params, browser) ==
    IF ~HasKey(ctrl.actions, action_name)
    THEN Ret(ActionResult(FALSE, None, "Acao nao encontrada: " \o action_name))
    ELSE LET func == GetItem(ctrl.actions, action_name)
         IN IF ~CallBinds(func, params, browser)
            THEN Caught(action_name, "got an unexpected or missing argument")
            ELSE CASE func.does = "raises" -> Caught(action_name, func.msg)
                   [] func.does = "result" -> Ret(ActionResult(TRUE, func.msg, None))
                   [] func.does = "failed" -> Ret(ActionResult(FALSE, None, func.msg))
                   [] OTHER -> Ret(ActionResult(TRUE, func.msg, None))

\* The functions a program registers.
Funcs ==
    { Func("my_action", 1, "result", "feito", {"message"}, {}, FALSE),
      Func("my_action", 2, "raises", "", {}, {}, TRUE),
      Func("debug_message", 3, "value", "42", {"message"}, {}, FALSE),
      Func("ask_human", 4, "raises", "no script run context", {"question"}, {}, FALSE) }

Descriptions == {"primeira", "segunda"}
ExplicitModel == [auto |-> FALSE, of |-> "MyParams", fields |-> {"message"}]
ExcludeChoices == { {}, {"ask_human"} }
ActionNames == {"my_action", "debug_message", "ask_human", "missing"}
ParamChoices == { {}, {"message"}, {"question"}, {"message", "browser"} }

CtrlInit ==
    /\ AgentNotStarted /\ AppNotStarted /\ VaultEmpty
    /\ applied = NoCall
    /\ controller \in { Controller(x) : x \in ExcludeChoices }

Registrations == IF applied = NoCall THEN 0 ELSE applied.n

\* @controller.action(description, param_model) on a function.
Register ==
    /\ IF applied = NoCall THEN TRUE ELSE applied.handler = "action"
    /\ Registrations < MaxRegistrations
    /\ \E func \in Funcs, description \in Descriptions, param_model \in {NoModel, ExplicitModel} :
         /\ controller' = Controller_action(controller, description, param_model, func)
         /\ applied' = [handler |-> "action", func |-> func, description |-> description,
                        param_model |-> param_model, before |-> controller,
                        n |-> Registrations + 1]
    /\ UNCHANGED << agent_vars, app_vars, vault_vars >>

\* await controller.execute_action(action_name, params, browser)
ExecuteAction ==
    /\ IF applied = NoCall THEN TRUE ELSE applied.handler = "action"
    /\ \E action_name \in ActionNames, params \in ParamChoices, browser \in BOOLEAN :
         applied' = [handler |-> "execute_action", action_name |-> action_name,
                     params |-> params, browser |-> browser,
                     out |-> Controller_execute_action(controller, action_name, params, browser),
                     n |-> Registrations]
    /\ UNCHANGED << agent_vars, app_vars, vault_vars, controller >>

CtrlNext == Register \/ ExecuteAction

CtrlSpec == CtrlInit /\ [][CtrlNext]_vars

Executed == applied # NoCall /\ applied.handler = "execute_action"
Registered == applied # NoCall /\ applied.handler = "action"

\* C21: execute_action never lets a failure of a handler out: for a name that
\* is not registered it returns success=false with the not-found error, and
\* for a registered handler that raises, or whose parameters do not bind, it
\* returns success=false with a non-empty error.
ExecuteActionNeverRaises ==
    Executed =>
       /\ applied.out.kind = "returned"
       /\ ~HasKey(controller.actions, applied.action_name)
          => /\ ~applied.out.res.success
             /\ applied.out.res.error = "Acao nao encontrada: " \o applied.action_name
       /\ (/\ HasKey(controller.actions, applied.action_name)
           /\ LET func == GetItem(controller.actions, applied.action_name)
              IN func.does = "raises" \/ ~CallBinds(func, applied.params, applied.browser))
          => /\ ~applied.out.res.success
             /\ applied.out.res.error \notin {None, ""}

\* A registered handler that raises an exception with an empty message was
\* called with parameters that bind.
HandlerRaisedInside ==
    /\ Executed
    /\ HasKey(controller.actions, applied.action_name)
    /\ LET func == GetItem(controller.actions, applied.action_name)
       IN /\ func.does = "raises"
          /\ func.msg = ""
          /\ CallBinds(func, applied.params, applied.browser)

\* The items of a dict under one key.
ItemsOf(d, k) == { i \in DOMAIN d : d[i].key = k }

\* C22: after a registration under a name that was already registered, the
\* handler, the description and the parameter model stored for the name are
\* those of this registration, and each dict holds exactly one item for the
\* name; the items of the other names are as they were.
LastRegistrationWins ==
    (Registered /\ applied.func.name \notin controller.exclude_actions)
    => LET name == applied.func.name
       IN /\ Cardinality(ItemsOf(controller.actions, name)) = 1
          /\ Cardinality(ItemsOf(controller.descriptions, name)) = 1
          /\ Cardinality(ItemsOf(controller.param_models, name)) = 1
          /\ GetItem(controller.actions, name) = applied.func
          /\ GetItem(controller.descriptions, name) = applied.description
          /\ GetItem(controller.param_models, name)
                = (IF applied.param_model = NoModel THEN AutoModel(applied.func)
                   ELSE applied.param_model)
          /\ \A k \in { applied.before.actions[i].key : i \in DOMAIN applied.before.actions } \ {name} :
                /\ HasKey(controller.actions, k)
                /\ GetItem(controller.actions, k) = GetItem(applied.before.actions, k)

\* A second function was registered under a name that held another function
\* with another description and another parameter model.
RegisteredTwice ==
    /\ Registered
    /\ applied.n = 2
    /\ HasKey(applied.before.actions, applied.func.name)
    /\ GetItem(applied.before.actions, applied.func.name).id \notin {0, applied.func.id}
    /\ GetItem(applied.before.descriptions, applied.func.name) # applied.description
    /\ GetItem(applied.before.param_models, applied.func.name) = ExplicitModel
    /\ applied.param_model = NoModel

(***************************************************************************)
(* More properties of the run of run_agent_task (specification Spec).      *)
(***************************************************************************)
\* The invocation the for loop is at.
CurrentCall == action_matches[match_i]

\* The transition calls the handler of a built-in action of the given names.
Dispatches(names) ==
    /\ InFor
    /\ pc' = "post"
    /\ CurrentCall.name \in names
    /\ CurrentCall.name \in DOMAIN action_map

\* The URL with the scheme the claim asks for.
WithScheme(u) == IF u \in SchemedUrls THEN u ELSE "https://" \o u

\* C23: when the loop executes navigate(u) and the page loads, the result is
\* a success, the URL list grows by exactly the one entry u, with https://
\* in front when u has no scheme, and the Step Record written for the step
\* carries the action text navigate(u); a navigate that fails adds no URL.
NavigateRecordsUrl ==
    /\ [][Dispatches({"navigate"})
          => LET u == CurrentCall.params[1].s
             IN /\ Added({"handler"})
                   => /\ urls' = Append(urls, WithScheme(u))
                      /\ prompt' = Append(prompt, Line("Acao", CurrentCall, "Navegou para"))
                      /\ next_goal' = [name |-> "navigate", params |-> << P(u) >>]
                /\ Added({"handler_exc"}) => urls' = urls]_vars
    /\ [][(pc = "post" /\ pc' = "loop")
          => /\ steps' = Append(steps, StepRecord(step_count, llm_response.text, next_goal))
             /\ urls' = urls]_vars

\* The step of the reply navigate(example.com) has been recorded.
NavigatedWithoutScheme ==
    /\ pc = "loop"
    /\ llm_response = R_navigate
    /\ steps # << >>
    /\ steps[Len(steps)].next_goal = [name |-> "navigate", params |-> << P("example.com") >>]
    /\ urls # << >>
    /\ urls[Len(urls)] = "https://example.com"

\* C24: a failure of the provider comes back from call_llm as a text, and the
\* loop takes that text through its no-action-found path: the request for a
\* specific action is added to the prompt, no action is looked up or
\* executed, and the status stays running.
LLMFailureTakesNoActionPath ==
    [][Added({"llm_exc"})
       => (/\ llm_response' \in LLMFailureReplies
           /\ prompt' = Append(prompt, AskForAction)
           /\ pc' = "loop"
           /\ status' = "running"
           /\ errors' = errors)]_vars

\* The transition executes a built-in action whose Action Result has
\* success=false.
ActionFails ==
    /\ Dispatches(DOMAIN action_map)
    /\ \E env \in Envs(action_map[CurrentCall.name], Shared, CurrentCall.params) :
          LET r == Run(action_map[CurrentCall.name], Shared, CurrentCall.params, env)
          IN /\ ~r.res.success
             /\ faults' = Count(env)
             /\ prompt' = Append(prompt, ResultLine(CurrentCall, r.res))

\* The transition is a step whose reply has no parsable action.
NothingParsed ==
    /\ pc = "step"
    /\ pc' = "loop"
    /\ ~llm_response'.none
    /\ FindAll(llm_response'.segs) = << >>

\* C25: every transient step error (a failed LLM call, an executed action
\* that returns success=false, a reply with no parsable action) adds an entry
\* to the error list and a corrective text to the prompt, and the task goes on.
TransientErrorsRecorded ==
    [][(Added({"llm_exc"}) \/ ActionFails \/ NothingParsed)
       => (/\ Len(errors') = Len(errors) + 1
           /\ Len(prompt') = Len(prompt) + 1
           /\ status' = "running"
           /\ InLoop')]_vars

(***************************************************************************)
(* More properties of the handlers applied on their own (TabsSpec).        *)
(***************************************************************************)
\* C26: every Action Result of a built-in action has a non-empty error when
\* success is false, and exactly one of extracted_content and error set.
OnePayload ==
    (applied # NoCall /\ applied.handler \in DOMAIN Signature)
    => /\ ~applied.res.success => applied.res.error \notin {None, ""}
       /\ (applied.res.extracted_content # None) # (applied.res.error # None)

\* The integer a duration stands for: the integer itself, or the one the
\* digits of a reply denote.
Requested(seconds) ==
    IF seconds.ty = "int" THEN seconds.n
    ELSE CASE seconds.s = "5" -> 5
           [] seconds.s = "45" -> 45
           [] OTHER -> 0

\* C27: for every requested duration d of a reply or of an initial action the
\* wait action sleeps min(d, 30) seconds.
WaitSleepsClamped ==
    (applied # NoCall /\ applied.handler = "wait")
    => LET d == Requested(applied.params[1])
       IN wait_sleep(applied.params[1]) = (IF d < WaitLimit THEN d ELSE WaitLimit)

(***************************************************************************)
(* The records of an executed step (specification Spec).                   *)
(***************************************************************************)
Executions == Events({"handler", "handler_exc"})
ResultKinds == {"Acao", "Acao personalizada"}

\* The transition executes an action and adds its one result line.
AddsResultLine ==
    /\ Len(prompt') = Len(prompt) + 1
    /\ prompt'[Len(prompt')].kind \in ResultKinds
    /\ prompt'[Len(prompt')].name = CurrentCall.name
    /\ SubSeq(prompt', 1, Len(prompt)) = prompt

IsPrefix(s, t) == Len(s) <= Len(t) /\ SubSeq(t, 1, Len(s)) = s

\* C29: the Step Records, the URLs and the screenshots of a run are only ever
\* appended to, and the indices of the Step Records start at 1 or above and
\* grow strictly along the list.
ListsAppendOnly ==
    /\ [](\A i \in 1..Len(steps) :
             /\ steps[i].step >= 1
             /\ i > 1 => steps[i - 1].step < steps[i].step)
    /\ [][/\ IsPrefix(steps, steps')
          /\ IsPrefix(urls, urls')
          /\ IsPrefix(screenshots, screenshots')]_vars

\* A run with two Step Records, two screenshots and a URL.
ListsGrown ==
    /\ Len(steps) = 2
    /\ Len(screenshots) = 2
    /\ Len(urls) >= 1

(***************************************************************************)
(* The handlers that touch a page element (click, type_text, extract_text, *)
(* upload_file), applied on their own: with highlight_elements set they    *)
(* first evaluate the highlighting script on the page, inside the try      *)
(* statement of the handler.  hl is what that evaluation does ("ok" or     *)
(* "raises", as for a selector document.querySelector rejects), env what   *)
(* the operation itself does.                                              *)
(***************************************************************************)
ElementHandlers == {"click", "type_text", "extract_text", "upload_file"}

element_action(st, handler, highlight_elements, hl, env) ==
    IF highlight_elements /\ hl = "raises"
    THEN [out |-> Excepts(st, "Erro em " \o handler), performed |-> FALSE]
    ELSE [out |-> page_action(st, handler, env), performed |-> env = "ok"]

ElementInit == BrowserReady /\ AppNotStarted /\ applied = NoCall /\ VaultEmpty /\ ControllerCreated

\* await action_func(*params) for a handler of ElementHandlers; the run has
\* one value of browser_config['highlight_elements'].
CallElementHandler ==
    /\ pc = "initial"
    /\ IF applied = NoCall THEN TRUE ELSE applied.n < MaxElementCalls
    /\ \E handler \in ElementHandlers, highlight_elements \in BOOLEAN,
          hl \in {"ok", "raises"}, env \in {"ok", "fail1"} :
         /\ applied # NoCall => applied.highlight_elements = highlight_elements
         /\ ~highlight_elements => hl = "ok"
         /\ LET r == element_action(Shared, handler, highlight_elements, hl, env)
            IN /\ SetShared(r.out.st)
               /\ applied' = [handler |-> handler, highlight_elements |-> highlight_elements,
                              hl |-> hl, env |-> env, before |-> Shared,
                              res |-> r.out.res, performed |-> r.performed,
                              n |-> IF applied = NoCall THEN 1 ELSE applied.n + 1]
    /\ UNCHANGED << app_vars, vault_vars, controller, pc, config_vars, status, steps, output, prompt,
                    step_count, llm_response, init_i, match_i, next_goal, llm_log, trace,
                    faults, raised >>

ElementNext == CallElementHandler

ElementSpec == ElementInit /\ [][ElementNext]_vars

\* C30: with highlighting enabled, the Action Result of click, type,
\* extract_text and upload_file and what they do on the page are the same
\* whether the highlight step succeeds or fails.
HighlightNeverMatters ==
    (applied # NoCall /\ applied.highlight_elements)
    => LET same == element_action(applied.before, applied.handler, TRUE, "ok", applied.env)
       IN /\ applied.res = same.out.res
          /\ applied.performed = same.performed

(***************************************************************************)
(* More properties of the sensitive data of the runs (VaultSpec).          *)
(***************************************************************************)
\* C31: the text the type action fills into the page has every occurrence of
\* every configured [placeholder] replaced by its secret, for maps of any
\* number of entries, and a text that is a bare placeholder name is replaced
\* by the secret of that placeholder.
TypeFillsEverySecret ==
    (shown.op = "type_text" /\ shown.data # << >>)
    => \A i \in DOMAIN shown.data :
          /\ ~Occurs(Bracketed(shown.data[i].placeholder), shown.back)
          /\ shown.text = shown.data[i].placeholder => shown.back = shown.data[i].value

\* C32: the vault a task masks with and describes to the LLM is populated at
\* the start of the task from its own map and lives for that task only: a
\* task that starts after the earlier ones have finished finds none of their
\* placeholders or secrets in it.
VaultHeldForTaskOnly ==
    \A t \in DOMAIN task_prompts :
        (task_prompts[t].alone /\ task_prompts[t].sensitive_data # << >>)
        => /\ \A i \in DOMAIN task_prompts[t].vault :
                 \E j \in DOMAIN task_prompts[t].sensitive_data :
                     task_prompts[t].vault[i] = task_prompts[t].sensitive_data[j]
           /\ task_prompts[t].described
                 = get_placeholder_description(task_prompts[t].sensitive_data)

(***************************************************************************)
(* What run_agent_task returns, and that it returns (specifications Spec   *)
(* and FairSpec).                                                          *)
(***************************************************************************)
\* C33: the result run_agent_task returns never has status running: after a
\* completion, at the step ceiling, with max_steps <= 0 and after a fatal
\* error the returned status is finished or failed.
ReturnedStatusIsFinal ==
    pc = "done" => status \in {"finished", "failed"}

\* A run with max_steps below 1 has returned finished without a single step.
ReturnedWithoutSteps ==
    /\ pc = "done"
    /\ max_steps <= 0
    /\ llm_calls = 0
    /\ status = "finished"
    /\ output = StepLimitMsg

\* Every await of the run returns or raises, so the run always takes its
\* next step.
FairSpec == Spec /\ WF_vars(Next)

\* The ceiling of the LLM calls of a run.
CallCeiling == IF max_steps > 0 THEN max_steps ELSE 0

\* C34: when every LLM call and browser operation returns or raises,
\* run_agent_task ends, after at most max_steps LLM calls whatever the
\* replies are; the step counter is never reset and the loop, once left, is
\* not entered again.
RunTerminates ==
    /\ <>(pc \in {"done", "raised"})
    /\ [](llm_calls <= CallCeiling)
    /\ [][step_count' >= step_count /\ (LoopLeft => LoopLeft')]_vars

\* A run has ended after as many LLM calls as its ceiling of two steps
\* allows, none of them a completion.
EndedAtCeiling ==
    /\ pc = "done"
    /\ max_steps = 2
    /\ llm_calls = 2
    /\ \A i \in 1..Len(llm_log) : ~HasCompletionIndicator(llm_log[i])

(***************************************************************************)
(* Completion and precedence of the built-in actions (specification Spec). *)
(***************************************************************************)
\* The reply holds at least one occurrence of call syntax.
HasCallSyntax(r) == \E i \in 1..Len(r.segs) : r.segs[i].k = "call"

\* The step that works on the latest reply is under way or just recorded.
LastStepRecord == steps[Len(steps)]

\* C35: completion is looked for only when the reply has no call syntax: a
\* reply that holds call syntax, with or without a completion phrase, is
\* handed to the for loop with the status untouched, and nothing in the for
\* loop or in the recording of the step touches the status.
CompletionOnlyWithoutCall ==
    [][ /\ (llm_log' # llm_log /\ ~llm_response'.none /\ HasCallSyntax(llm_response'))
           => (status' = status /\ output' = output /\ pc' = "actions")
        /\ (pc \in {"actions", "post"}) => (status' = status /\ output' = output)
        /\ (pc = "step" /\ status' = "finished" /\ status # "finished")
           => ~HasCallSyntax(llm_response') ]_vars

\* The step of a reply with an unknown call and the word done is recorded
\* and the run is still running.
CallWithPhraseKeptRunning ==
    /\ pc = "loop"
    /\ llm_response = R_unknown_done
    /\ HasCompletionIndicator(llm_response)
    /\ steps # << >>
    /\ LastStepRecord.evaluation_previous_goal = R_unknown_done.text
    /\ LastStepRecord.step = step_count
    /\ status = "running"

\* The latest reply is a completion: text, no call syntax, a completion phrase.
LastReplyCompletes ==
    /\ llm_log # << >>
    /\ ~llm_log[Len(llm_log)].none
    /\ ~HasCallSyntax(llm_log[Len(llm_log)])
    /\ HasCompletionIndicator(llm_log[Len(llm_log)])

\* C36: when the completion happens in the step whose index is max_steps,
\* the block after the loop finds the status finished and leaves the output
\* alone: the output is the raw reply, not the step-limit message.
CompletionAtCeilingKeepsReply ==
    (/\ pc \in {"recording", "close", "finally", "done"}
     /\ step_count = max_steps
     /\ LastReplyCompletes)
    => /\ output = llm_log[Len(llm_log)].text
       /\ output # StepLimitMsg

\* A run of two steps has returned after a completion in its second step.
CompletedInLastStep ==
    /\ pc = "done"
    /\ max_steps = 2
    /\ step_count = 2
    /\ LastReplyCompletes
    /\ status = "finished"
    /\ output = R_completed.text

\* The names bound both in the built-in map and in the controller registry.
InBoth == {"upload_file"}

\* C37: a name that is both in action_map and in the controller registry is
\* run by the built-in handler: its prompt line is the one of a built-in
\* action (a result or the error of the call), never the one of a custom
\* action.
BuiltinTakesPrecedence ==
    \A i \in DOMAIN prompt :
        prompt[i].name \in InBoth => prompt[i].kind \in {"Acao", "Erro na acao"}

\* upload_file, bound in both places, has been dispatched with two
\* positional parameters and ran as the built-in action.
UploadRanBuiltin ==
    /\ InBoth = DOMAIN action_map \cap controller_actions
    /\ \E i \in DOMAIN prompt :
          /\ prompt[i].name = "upload_file"
          /\ prompt[i].kind = "Acao"
          /\ Len(prompt[i].params) = 2

(***************************************************************************)
(* The status execute_task_async leaves behind (specification AppSpec).    *)
(***************************************************************************)
\* The call of session s is the only one that has been started.
OnlyCall(s) == \A o \in Sessions \ {s} : thread[o].calls = 0

\* C38: when a call of execute_task_async that passed the guard is left,
\* the stored status of the task is finished or failed, whether the agent
\* returned or raised (no other call works on the task).
ReturnStoresFinalStatus ==
    [][ \A s \in Sessions :
           (s \in PastGuard /\ OnlyCall(s) /\ thread'[s].pc = "idle")
           => task_db'.status \in {"finished", "failed"} ]_vars

(***************************************************************************)
(* What the tab handlers do to the tab list (specification TabsSpec).      *)
(***************************************************************************)
\* The tab list without its element at the 0-based position i, written out.
Without(seq, i) ==
    [ j \in 1..(Len(seq) - 1) |-> IF j <= i THEN seq[j] ELSE seq[j + 1] ]

\* The last call was of this handler.
Applied(handler) == applied # NoCall /\ applied.handler = handler

\* The index given to the last switch_tab is an integer position of the list.
InRange ==
    /\ applied.params[1].ty = "int"
    /\ 0 <= applied.params[1].n
    /\ applied.params[1].n < Len(applied.before.tabs)

\* C39: a successful close_tab on n >= 2 tabs with current index i removes
\* exactly the tab at i (n - 1 tabs are left, the others in their order) and
\* makes max(0, i - 1) current; a successful open_tab appends one tab and
\* makes the new last index current; a switch_tab with an index outside
\* [0, len(tabs)) returns a failed result and leaves the index as it was.
TabOperationsExact ==
    /\ (Applied("close_tab") /\ applied.res.success /\ Len(applied.before.tabs) >= 2)
       => /\ tabs = Without(applied.before.tabs, applied.before.cur)
          /\ Len(tabs) = Len(applied.before.tabs) - 1
          /\ current_tab_index
                = (IF applied.before.cur - 1 > 0 THEN applied.before.cur - 1 ELSE 0)
    /\ (Applied("open_tab") /\ applied.res.success)
       => /\ Len(tabs) = Len(applied.before.tabs) + 1
          /\ SubSeq(tabs, 1, Len(applied.before.tabs)) = applied.before.tabs
          /\ \A j \in 1..Len(applied.before.tabs) : applied.before.tabs[j] # tabs[Len(tabs)]
          /\ current_tab_index = Len(tabs) - 1
    /\ (Applied("switch_tab") /\ ~InRange)
       => /\ ~applied.res.success
          /\ current_tab_index = applied.before.cur
          /\ tabs = applied.before.tabs

\* The middle one of three tabs has been closed: the first and the third
\* are left and the first is current.
MiddleTabClosed ==
    /\ Applied("close_tab")
    /\ applied.res.success
    /\ applied.before.tabs = << 1, 2, 3 >>
    /\ applied.before.cur = 1
    /\ tabs = << 1, 3 >>
    /\ current_tab_index = 0

====
